---------------------------- MODULE Spec2Model ----------------------------
(***************************************************************************)
(* PRD-Executioner: the multi-phase evaluation pipeline.                   *)
(*                                                                         *)
(*   - stream_prd_review (src/api_server.py): the streaming pipeline, an   *)
(*     async generator; one action per stretch of code between two yields  *)
(*     or around one oracle call.                                          *)
(*   - the LangGraph batch workflow (src/demo2_multi_agent/                *)
(*     langgraph_workflow.py) entered through run_workflow or through the  *)
(*     /api/review handler.                                                *)
(*   - RouterSpec: the sentiment computation and the routers of both paths *)
(*     applied to review lists of up to MaxReviews reviews.                *)
(*                                                                         *)
(* The oracle (baml_client.b) is external: each call either returns a      *)
(* record or raises, chosen nondeterministically.                          *)
(***************************************************************************)
EXTENDS Integers, Sequences, FiniteSets, TLC

VARIABLES
    entry,              \* entry point of the run: "stream", "run_workflow", "api_review",
                        \* "generate_persona_with_retry"
    pc,                 \* position of the run in its code
    num_personas,       \* requested persona count (num_personas / personas_count)
    segment_configs,    \* [given, list]: the optional segment_configs argument
    all_segments,       \* load_segments(): the catalog, a sequence of segment ids
    segment_distribution, \* ordered dict segment_id -> count, as a sequence of entries
    seg_i,              \* position in the loop over segments
    rep_i,              \* position in range(count)
    all_personas,       \* the personas synthesized so far
    persona_to_segment, \* dict persona.name -> segment_id
    variation_index,    \* the variation index handed to the next synthesis
    reviews,            \* the reviews list
    rev_i,              \* position in the loop over personas
    negative_sentiment_pct,   \* fraction [num, den]
    concerning_sentiment_pct, \* fraction [num, den]
    segment_keys,       \* keys of segment_reviews, in insertion order
    deb_i,              \* position in the loop over segment_reviews / debate_topics
    debates,            \* the debates list
    debates_none,       \* state["debates"] is None (batch)
    insights,           \* result["final_insights"]: None or the record returned
    aggregate_call,     \* the arguments b.AggregateReviews was invoked with, or None
    events,             \* the events yielded so far, in order
    at_yield,           \* the generator is suspended at a yield
    calls,              \* oracle invocations made, per operation
    fails,              \* oracle invocations that raised, per operation
    outcome,            \* batch caller's view: "running", "returned", "raised"
    personas_file,      \* demo2_multi_agent/generated_personas_{count}.json, by count
    run,                \* number of the run in this working directory
    retry               \* generate_persona_with_retry: its locals and its attempts

vars == <<entry, pc, num_personas, segment_configs, all_segments,
          segment_distribution, seg_i, rep_i, all_personas, persona_to_segment,
          variation_index, reviews, rev_i, negative_sentiment_pct,
          concerning_sentiment_pct, segment_keys, deb_i, debates, debates_none,
          insights, aggregate_call, events, at_yield, calls, fails, outcome,
          personas_file, run, retry>>

\* what a run is given: its request, the catalog, and the working directory
inputVars == <<entry, num_personas, segment_configs, all_segments,
               personas_file, run, retry>>
personaVars == <<segment_distribution, seg_i, rep_i, all_personas,
                 persona_to_segment, variation_index>>
reviewVars == <<reviews, rev_i, negative_sentiment_pct, concerning_sentiment_pct>>
debateVars == <<segment_keys, deb_i, debates, debates_none>>

\* messy_persona_gen.py lines 409-410: last_error = None, total_tokens =
\* {"input": 0, "output": 0}; no attempt made, nothing slept, nothing returned
NoRetry ==
    [max_retries |-> 0, attempt |-> 0,
     total_tokens |-> [input |-> 0, output |-> 0],
     last_error |-> "None", slept |-> << >>, result |-> "None",
     attempts |-> << >>]

-----------------------------------------------------------------------------
(* Bounds of the model *)

\* largest requested persona count explored (requests range over MinPersonas..MaxN)
MaxN == 5
\* largest count of one segment_configs entry
MaxCount == 2
\* runs allocating at most this many personas explore colliding persona names
MaxCollisionRun == 2
\* largest number of personas found in a pre-generated personas file
MaxFilePersonas == 3
\* largest review list the routers are applied to in RouterSpec
MaxReviews == 10

(* Program constants *)

\* PRDReviewRequest.num_personas: Field(ge=4, ...)
MinPersonas == 4
\* if concerning_sentiment_pct > 20
StreamThreshold == 20
\* threshold = 30.0
BatchThreshold == 30
\* if seg_negative >= 2
MinConcerning == 2
\* sample_reviews = reviews[:10]
SampleSize == 10

-----------------------------------------------------------------------------
(* Data *)

Sentiments == {"positive", "neutral", "negative"}

\* the demographic segment catalog (4 segments), or an empty catalog file
Catalog == <<"s1", "s2", "s3", "s4">>
Catalogs == {<< >>, Catalog}

\* segment ids a caller may put in segment_configs: a catalog id, a custom id,
\* and an id that is neither
ConfigIds == {"s1", "custom_x", "ghost"}

\* config.segment_id.startswith('custom_')
StartsWithCustom(id) == id \in {"custom_x"}

ConfigEntries == [segment_id : ConfigIds, count : 0..MaxCount]

ConfigLists ==
    {<< >>} \cup {<<e>> : e \in ConfigEntries}
            \cup {<<e, f>> : e \in ConfigEntries, f \in ConfigEntries}

\* debate_topics
DebateTopics == <<"pricing", "notifications", "accessibility", "complexity">>

Range(s) == {s[i] : i \in 1..Len(s)}

\* a percentage count / total * 100 kept exact, as the fraction num / den
Frac(n, d) == [num |-> n, den |-> d]
Zero == Frac(0, 1)
\* f > t for a whole number t
FracGt(f, t) == f.num > t * f.den

Ev(type, phase, seg, n) == [type |-> type, phase |-> phase, seg |-> seg, n |-> n]

CountIf(s, P(_)) == Cardinality({i \in 1..Len(s) : P(s[i])})


-----------------------------------------------------------------------------
(* Segment Allocator: api_server.py, lines 105-170 *)

\* segment_distribution[config.segment_id] = {...}: a dict keeps the position of
\* a key it already holds and replaces its value
DictPut(d, e) ==
    IF \E i \in 1..Len(d) : d[i].segment_id = e.segment_id
    THEN [i \in 1..Len(d) |-> IF d[i].segment_id = e.segment_id THEN e ELSE d[i]]
    ELSE Append(d, e)

\* mutant: an id that is neither custom nor in the catalog is kept
AllocateConfigKeepsUnknown(d, config, catalog) ==
    IF config.count > 0
    THEN DictPut(d, [segment_id |-> config.segment_id, count |-> config.count,
                     custom |-> StartsWithCustom(config.segment_id)])
    ELSE d

\* one pass of `for config in segment_configs`
AllocateConfig(d, config, catalog) ==
    IF config.count > 0
    THEN IF StartsWithCustom(config.segment_id)
         THEN DictPut(d, [segment_id |-> config.segment_id,
                          count |-> config.count, custom |-> TRUE])
         ELSE IF config.segment_id \in Range(catalog)
              THEN DictPut(d, [segment_id |-> config.segment_id,
                               count |-> config.count, custom |-> FALSE])
              ELSE d
    ELSE d

RECURSIVE CustomDistribution(_, _)
CustomDistribution(configs, catalog) ==
    IF configs = << >> THEN << >>
    ELSE AllocateConfig(CustomDistribution(SubSeq(configs, 1, Len(configs) - 1), catalog),
                        configs[Len(configs)], catalog)

\* personas_per_segment = num_personas // len(all_segments), one entry per segment
DefaultDistribution(n, catalog) ==
    [i \in 1..Len(catalog) |->
        [segment_id |-> catalog[i], count |-> n \div Len(catalog), custom |-> FALSE]]

RECURSIVE SumCounts(_)
SumCounts(d) ==
    IF d = << >> THEN 0 ELSE d[Len(d)].count + SumCounts(SubSeq(d, 1, Len(d) - 1))

\* `if segment_configs:` is false for None and for an empty list
ConfigsTruthy == segment_configs.given /\ segment_configs.list # << >>

-----------------------------------------------------------------------------
(* Sentiment Aggregator / Router: api_server.py lines 284-299,               *)
(* langgraph_workflow.py lines 177-209                                       *)

IsNegative(r) == r.overall_sentiment = "negative"
IsNeutral(r) == r.overall_sentiment = "neutral"
IsConcerning(r) == r.overall_sentiment \in {"negative", "neutral"}

\* negative_count = sum(1 for r in reviews if r.overall_sentiment == "negative")
NegativeCount(rs) == CountIf(rs, IsNegative)
\* neutral_count = sum(1 for r in reviews if r.overall_sentiment == "neutral")
NeutralCount(rs) == CountIf(rs, IsNeutral)

\* negative_sentiment_pct = (negative_count / len(reviews) * 100) if reviews else 0
StreamNegativePct(rs) ==
    IF rs # << >> THEN Frac(NegativeCount(rs) * 100, Len(rs)) ELSE Zero

\* mutant: only the neutral reviews are counted as concerning
StreamConcerningPctNeutralOnly(rs) ==
    IF rs # << >> THEN Frac(NeutralCount(rs) * 100, Len(rs)) ELSE Zero

\* concerning_sentiment_pct = (concerning_count / len(reviews) * 100) if reviews else 0
StreamConcerningPct(rs) ==
    IF rs # << >> THEN Frac((NegativeCount(rs) + NeutralCount(rs)) * 100, Len(rs)) ELSE Zero

\* mutant: >= in place of >
StreamShouldDebateInclusive(pct) == pct.num >= StreamThreshold * pct.den

\* if concerning_sentiment_pct > 20
StreamShouldDebate(pct) == FracGt(pct, StreamThreshold)

\* negative_pct = (negative_count / len(reviews)) * 100: raises ZeroDivisionError
\* on an empty list, which BatchPctDefined guards
BatchPctDefined(rs) == Len(rs) # 0
BatchNegativePct(rs) == Frac(NegativeCount(rs) * 100, Len(rs))

\* mutant: >= in place of >
should_debate_inclusive(pct) ==
    IF pct.num >= BatchThreshold * pct.den THEN "debate" ELSE "skip_debate"

\* should_debate: if negative_pct > threshold
should_debate(pct) == IF FracGt(pct, BatchThreshold) THEN "debate" ELSE "skip_debate"

-----------------------------------------------------------------------------
(* Debate eligibility: api_server.py lines 305-317 *)

\* segment_reviews: the keys in order of first appearance in reviews
RECURSIVE GroupKeys(_)
GroupKeys(rs) ==
    IF rs = << >> THEN << >>
    ELSE LET front == GroupKeys(SubSeq(rs, 1, Len(rs) - 1))
             k == rs[Len(rs)].reviewer_segment
         IN IF k \in Range(front) THEN front ELSE Append(front, k)

\* seg_negative = sum(1 for r in seg_reviews if r.overall_sentiment in [...])
SegNegative(rs, k) ==
    Cardinality({i \in 1..Len(rs) : rs[i].reviewer_segment = k /\ IsConcerning(rs[i])})

\* mutant: one concerning review is enough
EligibleWithOne(rs, k) == SegNegative(rs, k) >= 1

\* if seg_negative >= 2
Eligible(rs, k) == SegNegative(rs, k) >= MinConcerning

\* positions of segment_keys at or after i whose segment is eligible
EligibleFrom(i) ==
    {j \in i..Len(segment_keys) : Eligible(reviews, segment_keys[j])}

Min(S) == CHOOSE x \in S : \A y \in S : x <= y

\* persona_scaling.py lines 22-33: the pool of variation directives
VARIATION_PROMPTS ==
    <<"unique individual", "different priorities", "contrarian views",
      "younger end of age range", "older end of age range", "tech-savvy",
      "less tech-comfortable", "accessibility needs",
      "cultural or lifestyle preferences", "skeptical of new technology">>

\* mutant: the index is clamped to the last position of the pool
variation_prompt_clamped(index) ==
    VARIATION_PROMPTS[Min({index, Len(VARIATION_PROMPTS) - 1}) + 1]

\* persona_scaling.py line 48 (Python lists are 0-based):
\* VARIATION_PROMPTS[variation_index % len(VARIATION_PROMPTS)]
variation_prompt(index) ==
    VARIATION_PROMPTS[(index % Len(VARIATION_PROMPTS)) + 1]

-----------------------------------------------------------------------------
(* The streaming pipeline: stream_prd_review, api_server.py lines 84-489 *)

Streaming == entry = "stream"

\* yield await send_event(type, data)
Emit(e) == /\ events' = Append(events, e)
           /\ at_yield' = TRUE

Bump(c, op) == [c EXCEPT ![op] = @ + 1]

\* mutant: the handler at line 485 returns without yielding `error`
RaiseToStreamSilently ==
    /\ events' = events
    /\ at_yield' = FALSE
    /\ pc' = "done"

\* mutant: `error` is yielded and the run goes on to its last yield
RaiseToStreamAndGoOn ==
    /\ Emit(Ev("error", "", "", 0))
    /\ pc' = "s_final"

\* except Exception as e: yield await send_event("error", ...), then the
\* generator returns
RaiseToStream ==
    /\ Emit(Ev("error", "", "", 0))
    /\ pc' = "done"

\* lines 93-97
Start ==
    /\ Streaming /\ pc = "s_init"
    /\ Emit(Ev("progress", "initialization", "", 0))
    /\ pc' = "s_load"
    /\ UNCHANGED <<inputVars, personaVars, reviewVars, debateVars,
                   insights, aggregate_call, calls, fails, outcome>>

\* mutant: the segments are loaded without a progress event
LoadQuietly ==
    /\ Streaming /\ pc = "s_load"
    /\ at_yield' = FALSE
    /\ pc' = "s_dist"
    /\ UNCHANGED <<inputVars, personaVars, reviewVars, debateVars,
                   insights, aggregate_call, events, calls, fails, outcome>>

\* lines 100-103
Load ==
    /\ Streaming /\ pc = "s_load"
    /\ Emit(Ev("progress", "persona_generation", "", 0))
    /\ pc' = "s_dist"
    /\ UNCHANGED <<inputVars, personaVars, reviewVars, debateVars,
                   insights, aggregate_call, calls, fails, outcome>>

\* lines 108-155: a caller-supplied distribution
BuildCustomDistribution ==
    /\ Streaming /\ pc = "s_dist"
    /\ ConfigsTruthy
    /\ segment_distribution' = CustomDistribution(segment_configs.list, all_segments)
    /\ Emit(Ev("progress", "persona_generation", "", 0))
    /\ pc' = "s_seg"
    /\ UNCHANGED <<inputVars, seg_i, rep_i, all_personas,
                   persona_to_segment, variation_index, reviewVars, debateVars,
                   insights, aggregate_call, calls, fails, outcome>>

\* lines 156-170: the even split over the catalog
BuildDefaultDistribution ==
    /\ Streaming /\ pc = "s_dist"
    /\ ~ConfigsTruthy
    /\ all_segments # << >>
    /\ segment_distribution' = DefaultDistribution(num_personas, all_segments)
    /\ Emit(Ev("progress", "persona_generation", "", 0))
    /\ pc' = "s_seg"
    /\ UNCHANGED <<inputVars, seg_i, rep_i, all_personas,
                   persona_to_segment, variation_index, reviewVars, debateVars,
                   insights, aggregate_call, calls, fails, outcome>>

\* line 158 with an empty catalog: ZeroDivisionError, caught at line 485
BuildDefaultDistributionRaises ==
    /\ Streaming /\ pc = "s_dist"
    /\ ~ConfigsTruthy
    /\ all_segments = << >>
    /\ RaiseToStream
    /\ UNCHANGED <<inputVars, personaVars, reviewVars, debateVars,
                   insights, aggregate_call, calls, fails, outcome>>

\* the inner loop `for i in range(count)` of the current segment is over
\* (or no segment was entered yet)
SegmentOver ==
    \/ pc = "s_seg"
    \/ /\ pc = "s_gen"
       /\ rep_i = segment_distribution[seg_i].count

\* lines 177-185: enter the next segment of segment_distribution
SegmentStart ==
    /\ Streaming /\ SegmentOver
    /\ seg_i < Len(segment_distribution)
    /\ seg_i' = seg_i + 1
    /\ rep_i' = 0
    /\ Emit(Ev("progress", "persona_generation", segment_distribution[seg_i + 1].segment_id,
               segment_distribution[seg_i + 1].count))
    /\ pc' = "s_gen"
    /\ UNCHANGED <<inputVars, segment_distribution, all_personas,
                   persona_to_segment, variation_index, reviewVars, debateVars,
                   insights, aggregate_call, calls, fails, outcome>>

\* names the synthesis oracle may give the persona of variation index idx: a
\* name of its own, or (in small runs) one an earlier persona may carry
NameChoices(idx) ==
    IF SumCounts(segment_distribution) <= MaxCollisionRun
    THEN 1..(idx + 1)
    ELSE {idx + 1}

\* lines 187-210: generate_persona_variation returns a persona
SynthesizeOk ==
    /\ Streaming /\ pc = "s_gen"
    /\ rep_i < segment_distribution[seg_i].count
    /\ \E name \in NameChoices(variation_index) :
         /\ all_personas' = Append(all_personas,
                [name |-> name, idx |-> variation_index,
                 origin |-> segment_distribution[seg_i].segment_id,
                 variation_prompt |-> variation_prompt(variation_index)])
         /\ persona_to_segment' =
                (name :> segment_distribution[seg_i].segment_id) @@ persona_to_segment
    /\ variation_index' = variation_index + 1
    /\ rep_i' = rep_i + 1
    /\ calls' = Bump(calls, "synth")
    /\ Emit(Ev("persona_generated", "", segment_distribution[seg_i].segment_id,
               Len(all_personas) + 1))
    /\ UNCHANGED <<inputVars, pc, segment_distribution, seg_i,
                   reviewVars, debateVars, insights, aggregate_call, fails, outcome>>

\* line 189 raises (b.GeneratePersona fails): nothing catches it before line 485
SynthesizeFail ==
    /\ Streaming /\ pc = "s_gen"
    /\ rep_i < segment_distribution[seg_i].count
    /\ calls' = Bump(calls, "synth")
    /\ fails' = Bump(fails, "synth")
    /\ RaiseToStream
    /\ UNCHANGED <<inputVars, personaVars, reviewVars, debateVars,
                   insights, aggregate_call, outcome>>

\* lines 212-216
PersonasComplete ==
    /\ Streaming /\ SegmentOver
    /\ seg_i = Len(segment_distribution)
    /\ Emit(Ev("progress", "persona_generation_complete", "", Len(all_personas)))
    /\ pc' = "s_wf"
    /\ UNCHANGED <<inputVars, personaVars, reviewVars, debateVars,
                   insights, aggregate_call, calls, fails, outcome>>

\* lines 219-225
WorkflowCreation ==
    /\ Streaming /\ pc = "s_wf"
    /\ Emit(Ev("progress", "workflow_creation", "", 0))
    /\ pc' = "s_p1"
    /\ UNCHANGED <<inputVars, personaVars, reviewVars, debateVars,
                   insights, aggregate_call, calls, fails, outcome>>

\* lines 228-242
Phase1Reviews ==
    /\ Streaming /\ pc = "s_p1"
    /\ Emit(Ev("progress", "phase1_reviews", "", Len(all_personas)))
    /\ pc' = "s_p1x"
    /\ UNCHANGED <<inputVars, personaVars, reviewVars, debateVars,
                   insights, aggregate_call, calls, fails, outcome>>

\* lines 245-250
Phase1Executing ==
    /\ Streaming /\ pc = "s_p1x"
    /\ Emit(Ev("progress", "phase1_executing", "", 0))
    /\ pc' = "s_rev"
    /\ reviews' = << >>
    /\ rev_i' = 1
    /\ UNCHANGED <<inputVars, personaVars, negative_sentiment_pct,
                   concerning_sentiment_pct, debateVars, insights, aggregate_call, calls, fails, outcome>>


\* persona_to_segment.get(persona.name, "unknown")
SegmentOf(name) ==
    IF name \in DOMAIN persona_to_segment THEN persona_to_segment[name] ELSE "unknown"

\* the record b.ReviewPRD returns for a persona: the oracle picks the sentiment and
\* echoes the persona's name and the segment it was given; `persona` names the
\* persona object the invocation was made for
Review(persona, segment, sentiment) ==
    [reviewer_name |-> persona.name, reviewer_segment |-> segment,
     overall_sentiment |-> sentiment, persona |-> persona.idx]

\* mutant: no try/except around the review, the failure reaches line 485
ReviewFailPropagates ==
    /\ Streaming /\ pc = "s_rev"
    /\ rev_i <= Len(all_personas)
    /\ calls' = Bump(calls, "review")
    /\ fails' = Bump(fails, "review")
    /\ RaiseToStream
    /\ UNCHANGED <<inputVars, personaVars, reviewVars, debateVars, insights, aggregate_call, outcome>>

\* mutant: lines 284-294 indented into the loop body, `review_complete` is
\* yielded between two reviews
ReviewCompleteInsideLoop ==
    /\ Streaming /\ pc = "s_rev"
    /\ events[Len(events)].type # "review_complete"
    /\ negative_sentiment_pct' = StreamNegativePct(reviews)
    /\ concerning_sentiment_pct' = StreamConcerningPct(reviews)
    /\ Emit(Ev("review_complete", "", "", Len(reviews)))
    /\ pc' = IF rev_i > Len(all_personas) THEN "s_route" ELSE "s_rev"
    /\ UNCHANGED <<inputVars, personaVars, reviews, rev_i, debateVars,
                   insights, aggregate_call, calls, fails, outcome>>

\* mutant: the review is put at the front of the list
ReviewOkPrepends ==
    /\ Streaming /\ pc = "s_rev"
    /\ rev_i <= Len(all_personas)
    /\ \E sentiment \in Sentiments :
         reviews' = <<Review(all_personas[rev_i], SegmentOf(all_personas[rev_i].name),
                             sentiment)>> \o reviews
    /\ rev_i' = rev_i + 1
    /\ calls' = Bump(calls, "review")
    /\ Emit(Ev("review_generated", "", "", Len(reviews) + 1))
    /\ UNCHANGED <<inputVars, pc, personaVars, negative_sentiment_pct,
                   concerning_sentiment_pct, debateVars, insights, aggregate_call, fails, outcome>>

\* mutant: total_so_far counts the personas tried, reviewed or not
ReviewOkCountsAttempts ==
    /\ Streaming /\ pc = "s_rev"
    /\ rev_i <= Len(all_personas)
    /\ \E sentiment \in Sentiments :
         reviews' = Append(reviews,
            Review(all_personas[rev_i], SegmentOf(all_personas[rev_i].name), sentiment))
    /\ rev_i' = rev_i + 1
    /\ calls' = Bump(calls, "review")
    /\ Emit(Ev("review_generated", "", "", rev_i))
    /\ UNCHANGED <<inputVars, pc, personaVars, negative_sentiment_pct,
                   concerning_sentiment_pct, debateVars, insights, aggregate_call, fails, outcome>>

\* lines 251-278: one pass of the review loop, b.ReviewPRD returns
ReviewOk ==
    /\ Streaming /\ pc = "s_rev"
    /\ rev_i <= Len(all_personas)
    /\ \E sentiment \in Sentiments :
         reviews' = Append(reviews,
            Review(all_personas[rev_i], SegmentOf(all_personas[rev_i].name), sentiment))
    /\ rev_i' = rev_i + 1
    /\ calls' = Bump(calls, "review")
    /\ Emit(Ev("review_generated", "", "", Len(reviews) + 1))
    /\ UNCHANGED <<inputVars, pc, personaVars, negative_sentiment_pct,
                   concerning_sentiment_pct, debateVars, insights, aggregate_call, fails, outcome>>

\* mutant: after a failed review the loop tries the same persona again
ReviewFailRetries ==
    /\ Streaming /\ pc = "s_rev"
    /\ rev_i <= Len(all_personas)
    /\ calls.review < 2 * Len(all_personas)
    /\ calls' = Bump(calls, "review")
    /\ fails' = Bump(fails, "review")
    /\ at_yield' = FALSE
    /\ UNCHANGED <<inputVars, pc, personaVars, reviewVars, debateVars,
                   insights, aggregate_call, events, outcome>>

\* mutant: the persona whose review failed is removed from the persona list
ReviewFailDropsPersona ==
    /\ Streaming /\ pc = "s_rev"
    /\ rev_i <= Len(all_personas)
    /\ all_personas' = SubSeq(all_personas, 1, rev_i - 1)
                          \o SubSeq(all_personas, rev_i + 1, Len(all_personas))
    /\ calls' = Bump(calls, "review")
    /\ fails' = Bump(fails, "review")
    /\ at_yield' = FALSE
    /\ UNCHANGED <<inputVars, pc, segment_distribution, seg_i, rep_i,
                   persona_to_segment, variation_index, reviewVars, debateVars,
                   insights, aggregate_call, events, outcome>>

\* lines 280-282: b.ReviewPRD raises, the loop continues with the next persona
ReviewFail ==
    /\ Streaming /\ pc = "s_rev"
    /\ rev_i <= Len(all_personas)
    /\ rev_i' = rev_i + 1
    /\ calls' = Bump(calls, "review")
    /\ fails' = Bump(fails, "review")
    /\ at_yield' = FALSE
    /\ UNCHANGED <<inputVars, pc, personaVars, reviews,
                   negative_sentiment_pct, concerning_sentiment_pct, debateVars,
                   insights, aggregate_call, events, outcome>>

\* lines 284-294: the loop is over; sentiment percentages, review_complete
ReviewComplete ==
    /\ Streaming /\ pc = "s_rev"
    /\ rev_i > Len(all_personas)
    /\ negative_sentiment_pct' = StreamNegativePct(reviews)
    /\ concerning_sentiment_pct' = StreamConcerningPct(reviews)
    /\ Emit(Ev("review_complete", "", "", Len(reviews)))
    /\ pc' = "s_route"
    /\ UNCHANGED <<inputVars, personaVars, reviews, rev_i, debateVars,
                   insights, aggregate_call, calls, fails, outcome>>

\* mutant: the debate stage is entered under the `debate_skipped` announcement
DebatesStartingAsSkipped ==
    /\ Streaming /\ pc = "s_route"
    /\ StreamShouldDebate(concerning_sentiment_pct)
    /\ debates' = << >>
    /\ segment_keys' = GroupKeys(reviews)
    /\ deb_i' = 1
    /\ Emit(Ev("progress", "debate_skipped", "", 0))
    /\ pc' = "s_deb"
    /\ UNCHANGED <<inputVars, personaVars, reviewVars, debates_none,
                   insights, aggregate_call, calls, fails, outcome>>

\* lines 297-311: the router enters the debate stage; reviews grouped by segment
DebatesStarting ==
    /\ Streaming /\ pc = "s_route"
    /\ StreamShouldDebate(concerning_sentiment_pct)
    /\ debates' = << >>
    /\ segment_keys' = GroupKeys(reviews)
    /\ deb_i' = 1
    /\ Emit(Ev("progress", "debates_starting", "", 0))
    /\ pc' = "s_deb"
    /\ UNCHANGED <<inputVars, personaVars, reviewVars, debates_none,
                   insights, aggregate_call, calls, fails, outcome>>

\* lines 368-372: the router skips the debate stage
DebateSkipped ==
    /\ Streaming /\ pc = "s_route"
    /\ ~StreamShouldDebate(concerning_sentiment_pct)
    /\ debates' = << >>
    /\ Emit(Ev("progress", "debate_skipped", "", 0))
    /\ pc' = "s_agg"
    /\ UNCHANGED <<inputVars, personaVars, reviewVars, segment_keys,
                   deb_i, debates_none, insights, aggregate_call, calls, fails, outcome>>

\* lines 314-322: the loop reaches the next segment with seg_negative >= 2
DebateRunning ==
    /\ Streaming /\ pc = "s_deb"
    /\ EligibleFrom(deb_i) # {}
    /\ deb_i' = Min(EligibleFrom(deb_i))
    /\ Emit(Ev("progress", "debate_running", segment_keys[Min(EligibleFrom(deb_i))], 0))
    /\ pc' = "s_deb_call"
    /\ UNCHANGED <<inputVars, personaVars, reviewVars, segment_keys,
                   debates, debates_none, insights, aggregate_call, calls, fails, outcome>>

\* mutant: the debate is appended and `debate_generated` is not yielded
DebateOkWithoutEvent ==
    /\ Streaming /\ pc = "s_deb_call"
    /\ debates' = Append(debates, [topic |-> segment_keys[deb_i],
                                   segment_name |-> segment_keys[deb_i]])
    /\ deb_i' = deb_i + 1
    /\ calls' = Bump(calls, "debate")
    /\ at_yield' = FALSE
    /\ pc' = "s_deb"
    /\ UNCHANGED <<inputVars, personaVars, reviewVars, segment_keys,
                   debates_none, insights, aggregate_call, events, fails, outcome>>

\* lines 324-359: b.FacilitateDebate returns
DebateOk ==
    /\ Streaming /\ pc = "s_deb_call"
    /\ debates' = Append(debates, [topic |-> segment_keys[deb_i],
                                   segment_name |-> segment_keys[deb_i]])
    /\ deb_i' = deb_i + 1
    /\ calls' = Bump(calls, "debate")
    /\ Emit(Ev("debate_generated", "", segment_keys[deb_i], 0))
    /\ pc' = "s_deb"
    /\ UNCHANGED <<inputVars, personaVars, reviewVars, segment_keys,
                   debates_none, insights, aggregate_call, fails, outcome>>

\* mutant: no try/except around the debate, the failure reaches line 485
DebateFailPropagates ==
    /\ Streaming /\ pc = "s_deb_call"
    /\ calls' = Bump(calls, "debate")
    /\ fails' = Bump(fails, "debate")
    /\ RaiseToStream
    /\ UNCHANGED <<inputVars, personaVars, reviewVars, debateVars, insights, aggregate_call, outcome>>

\* lines 360-362: b.FacilitateDebate raises, the loop continues
DebateFail ==
    /\ Streaming /\ pc = "s_deb_call"
    /\ deb_i' = deb_i + 1
    /\ calls' = Bump(calls, "debate")
    /\ fails' = Bump(fails, "debate")
    /\ at_yield' = FALSE
    /\ pc' = "s_deb"
    /\ UNCHANGED <<inputVars, personaVars, reviewVars, segment_keys,
                   debates, debates_none, insights, aggregate_call, events, outcome>>

\* mutant: `debate_complete` is yielded whether or not a debate was produced
DebateCompleteAlways ==
    /\ Streaming /\ pc = "s_deb"
    /\ EligibleFrom(deb_i) = {}
    /\ Emit(Ev("debate_complete", "", "", Len(debates)))
    /\ pc' = "s_agg"
    /\ UNCHANGED <<inputVars, personaVars, reviewVars, debateVars,
                   insights, aggregate_call, calls, fails, outcome>>

\* lines 364-367: the loop is over and some debate was produced
DebateComplete ==
    /\ Streaming /\ pc = "s_deb"
    /\ EligibleFrom(deb_i) = {}
    /\ debates # << >>
    /\ Emit(Ev("debate_complete", "", "", Len(debates)))
    /\ pc' = "s_agg"
    /\ UNCHANGED <<inputVars, personaVars, reviewVars, debateVars,
                   insights, aggregate_call, calls, fails, outcome>>

\* the debate stage is over, with or without debate_complete
DebateStageOver ==
    \/ pc = "s_agg"
    \/ /\ pc = "s_deb"
       /\ EligibleFrom(deb_i) = {}
       /\ debates = << >>

\* lines 375-389
Aggregating ==
    /\ Streaming /\ DebateStageOver
    /\ Emit(Ev("progress", "aggregating", "", 0))
    /\ pc' = "s_agg_call"
    /\ UNCHANGED <<inputVars, personaVars, reviewVars, debateVars,
                   insights, aggregate_call, calls, fails, outcome>>

\* Python's None, for final_insights and for a call not made
None == [kind |-> "None"]

IsPositive(r) == r.overall_sentiment = "positive"

\* the sentiment counts of a list of reviews
Tally(rs) ==
    [positive |-> CountIf(rs, IsPositive), neutral |-> NeutralCount(rs),
     negative |-> NegativeCount(rs), total |-> Len(rs)]

\* the keyword arguments of b.AggregateReviews
AggregateCall(rs, ds, n) ==
    [kind |-> "AggregateReviews", reviews_json |-> rs, debates_json |-> ds,
     total_personas |-> n]

\* the sentiment_breakdown of the record b.AggregateReviews returns.  The
\* counts are the language model's: the exact tally of reviews_json, or the
\* tally with its total taken from the total_personas argument.  The callers
\* neither compute nor check any of the four numbers.
SentimentBreakdowns(call) ==
    {Tally(call.reviews_json),
     [Tally(call.reviews_json) EXCEPT !.total = call.total_personas]}

\* the AggregatedInsights record, as far as the pipeline reads it
AggregatedInsights(sb) == [kind |-> "AggregatedInsights", sentiment_breakdown |-> sb]

\* lines 393-426: reviews_json, debates_json, total_personas=len(all_personas)
StreamAggregateCall == AggregateCall(reviews, debates, Len(all_personas))

\* lines 428-478: insights_dict copies the four counts; reviews_count,
\* debates_count
FinalResult(ins, rs) ==
    [type |-> "final_result", phase |-> "", seg |-> "", n |-> Len(rs),
     debates_count |-> Len(debates),
     sentiment_breakdown |-> ins.sentiment_breakdown]

\* mutant: the insights are computed and `final_result` is not yielded
AggregateOkWithoutResult ==
    /\ Streaming /\ pc = "s_agg_call"
    /\ aggregate_call' = StreamAggregateCall
    /\ \E sb \in SentimentBreakdowns(StreamAggregateCall) :
         insights' = AggregatedInsights(sb)
    /\ calls' = Bump(calls, "aggregate")
    /\ at_yield' = FALSE
    /\ pc' = "s_final"
    /\ UNCHANGED <<inputVars, personaVars, reviewVars, debateVars, events,
                   fails, outcome>>

\* lines 391-478: b.AggregateReviews returns; final_result
AggregateOk ==
    /\ Streaming /\ pc = "s_agg_call"
    /\ aggregate_call' = StreamAggregateCall
    /\ \E sb \in SentimentBreakdowns(StreamAggregateCall) :
         /\ insights' = AggregatedInsights(sb)
         /\ Emit(FinalResult(AggregatedInsights(sb), reviews))
    /\ calls' = Bump(calls, "aggregate")
    /\ pc' = "s_final"
    /\ UNCHANGED <<inputVars, personaVars, reviewVars, debateVars,
                   fails, outcome>>

\* line 422 raises: caught at line 485
AggregateFail ==
    /\ Streaming /\ pc = "s_agg_call"
    /\ aggregate_call' = StreamAggregateCall
    /\ calls' = Bump(calls, "aggregate")
    /\ fails' = Bump(fails, "aggregate")
    /\ RaiseToStream
    /\ UNCHANGED <<inputVars, personaVars, reviewVars, debateVars,
                   insights, outcome>>

\* lines 480-483
Complete ==
    /\ Streaming /\ pc = "s_final"
    /\ Emit(Ev("complete", "", "", 0))
    /\ pc' = "done"
    /\ UNCHANGED <<inputVars, personaVars, reviewVars, debateVars,
                   insights, aggregate_call, calls, fails, outcome>>

\* mutant: the close is handled like an exception of the body: the handler at
\* line 485 yields `error`
CloseYieldsError ==
    /\ Streaming /\ at_yield
    /\ pc \notin {"done", "closed"}
    /\ pc' = "closed"
    /\ Emit(Ev("error", "", "", 0))
    /\ UNCHANGED <<inputVars, personaVars, reviewVars, debateVars,
                   insights, aggregate_call, calls, fails, outcome>>

\* the consumer closes the generator while it is suspended at a yield:
\* GeneratorExit is no Exception, so no handler of the function runs
Close ==
    /\ Streaming /\ at_yield
    /\ pc \notin {"done", "closed"}
    /\ pc' = "closed"
    /\ UNCHANGED <<inputVars, personaVars, reviewVars, debateVars,
                   insights, aggregate_call, events, at_yield, calls, fails, outcome>>

StreamNext ==
    \/ Start \/ Load
    \/ BuildCustomDistribution \/ BuildDefaultDistribution
    \/ BuildDefaultDistributionRaises
    \/ SegmentStart \/ SynthesizeOk \/ SynthesizeFail \/ PersonasComplete
    \/ WorkflowCreation \/ Phase1Reviews \/ Phase1Executing
    \/ ReviewOk \/ ReviewFail \/ ReviewComplete
    \/ DebatesStarting \/ DebateSkipped
    \/ DebateRunning \/ DebateOk \/ DebateFail \/ DebateComplete
    \/ Aggregating \/ AggregateOk \/ AggregateFail \/ Complete
    \/ Close

NoCalls == [synth |-> 0, review |-> 0, debate |-> 0, aggregate |-> 0]

\* the requests a caller may make: with an explicit distribution num_personas
\* is not read by the allocation, and the smallest valid request stands for all
Requests ==
    {[n |-> n, configs |-> [given |-> FALSE, list |-> << >>]] : n \in MinPersonas..MaxN}
    \cup {[n |-> n, configs |-> [given |-> TRUE, list |-> << >>]] : n \in MinPersonas..MaxN}
    \cup {[n |-> MinPersonas, configs |-> [given |-> TRUE, list |-> l]] :
            l \in ConfigLists \ {<< >>}}

FreshRun ==
    /\ segment_distribution = << >>
    /\ seg_i = 0
    /\ rep_i = 0
    /\ all_personas = << >>
    /\ persona_to_segment = << >>
    /\ variation_index = 0
    /\ reviews = << >>
    /\ rev_i = 0
    /\ negative_sentiment_pct = Zero
    /\ concerning_sentiment_pct = Zero
    /\ segment_keys = << >>
    /\ deb_i = 0
    /\ debates = << >>
    /\ insights = None
    /\ aggregate_call = None
    /\ events = << >>
    /\ at_yield = FALSE
    /\ calls = NoCalls
    /\ fails = NoCalls
    /\ outcome = "running"

\* no file generated_personas_*.json in the working directory
NoFiles == << >>

StreamInit ==
    /\ entry = "stream"
    /\ pc = "s_init"
    /\ personas_file = NoFiles
    /\ run = 1
    /\ retry = NoRetry
    /\ \E rq \in Requests :
         /\ num_personas = rq.n
         /\ segment_configs = rq.configs
    /\ all_segments \in Catalogs
    /\ debates_none = FALSE
    /\ FreshRun

-----------------------------------------------------------------------------
(* The batch path: the /api/review handler (api_server.py lines 523-602),  *)
(* run_workflow and the graph nodes (langgraph_workflow.py), and           *)
(* scale_personas (persona_scaling.py lines 74-112)                        *)

Batch == entry \in {"run_workflow", "api_review"}

\* an exception leaves workflow.invoke / run_workflow; the /api/review handler
\* turns it into HTTPException(500)
RaiseToCaller ==
    /\ outcome' = "raised"
    /\ pc' = "done"

\* scale_personas: `for segment in segments: for i in range(personas_per_segment)`
\* has no pass left
ScaleOver == seg_i > Len(segment_distribution)

\* the loop position of the pass after (s, r)
ScaleAdvance(s, r) ==
    IF r + 1 < segment_distribution[s].count
    THEN [seg |-> s, rep |-> r + 1]
    ELSE [seg |-> s + 1, rep |-> 0]

\* the first loop position of scale_personas(segments, per)
ScaleFirst(d) == IF d # << >> /\ d[1].count > 0 THEN 1 ELSE Len(d) + 1

\* api_server.py lines 530-533: the handler calls scale_personas itself
ApiScale ==
    /\ entry = "api_review" /\ pc = "a_start"
    /\ all_segments # << >>
    /\ segment_distribution' = DefaultDistribution(num_personas, all_segments)
    /\ seg_i' = ScaleFirst(DefaultDistribution(num_personas, all_segments))
    /\ rep_i' = 0
    /\ all_personas' = << >>
    /\ pc' = "a_scale"
    /\ UNCHANGED <<inputVars, persona_to_segment, variation_index,
                   reviewVars, debateVars, insights, aggregate_call, events, at_yield, calls, fails,
                   outcome>>

\* api_server.py line 531 with an empty catalog: ZeroDivisionError, line 601
ApiScaleRaises ==
    /\ entry = "api_review" /\ pc = "a_start"
    /\ all_segments = << >>
    /\ RaiseToCaller
    /\ UNCHANGED <<inputVars, personaVars, reviewVars, debateVars,
                   insights, aggregate_call, events, at_yield, calls, fails>>

\* persona_scaling.py lines 95-103: generate_persona_variation(segment, i) returns
ScaleOk ==
    /\ Batch /\ pc \in {"a_scale", "b_scale"}
    /\ ~ScaleOver
    /\ variation_index' = rep_i
    /\ all_personas' = Append(all_personas,
            [name |-> Len(all_personas) + 1, idx |-> calls.synth,
             origin |-> segment_distribution[seg_i].segment_id,
             variation_prompt |-> variation_prompt(rep_i)])
    /\ seg_i' = ScaleAdvance(seg_i, rep_i).seg
    /\ rep_i' = ScaleAdvance(seg_i, rep_i).rep
    /\ calls' = Bump(calls, "synth")
    /\ UNCHANGED <<inputVars, pc, segment_distribution,
                   persona_to_segment, reviewVars, debateVars, insights, aggregate_call, events,
                   at_yield, fails, outcome>>

\* persona_scaling.py lines 104-106: the call raises, the loop continues
ScaleFail ==
    /\ Batch /\ pc \in {"a_scale", "b_scale"}
    /\ ~ScaleOver
    /\ variation_index' = rep_i
    /\ seg_i' = ScaleAdvance(seg_i, rep_i).seg
    /\ rep_i' = ScaleAdvance(seg_i, rep_i).rep
    /\ calls' = Bump(calls, "synth")
    /\ fails' = Bump(fails, "synth")
    /\ UNCHANGED <<inputVars, pc, segment_distribution, all_personas,
                   persona_to_segment, reviewVars, debateVars, insights, aggregate_call, events,
                   at_yield, outcome>>

\* api_server.py lines 535-548: initial_state, workflow.invoke
ApiInvoke ==
    /\ entry = "api_review" /\ pc = "a_scale"
    /\ ScaleOver
    /\ num_personas' = Len(all_personas)
    /\ debates_none' = FALSE
    /\ pc' = "b_node1"
    /\ UNCHANGED <<entry, segment_configs, all_segments, personas_file, run, retry,
                   personaVars, reviewVars, segment_keys, deb_i, debates,
                   insights, aggregate_call, events, at_yield, calls, fails, outcome>>

\* langgraph_workflow.py lines 467-499: initial_state, app.invoke
RunWorkflow ==
    /\ entry = "run_workflow" /\ pc = "b_start"
    /\ all_personas' = << >>
    /\ debates_none' = TRUE
    /\ pc' = "b_node1"
    /\ UNCHANGED <<inputVars, segment_distribution, seg_i, rep_i,
                   persona_to_segment, variation_index, reviewVars, segment_keys,
                   deb_i, debates, insights, aggregate_call, events, at_yield, calls, fails, outcome>>

\* the personas a pre-generated file of m personas holds
FilePersonas(m) ==
    [i \in 1..m |-> [name |-> i, idx |-> i - 1, origin |-> "file",
                     variation_prompt |-> variation_prompt(i - 1)]]

\* generate_personas_node, lines 98-105 and 118: the file exists
GeneratePersonasLoad ==
    /\ Batch /\ pc = "b_node1"
    /\ num_personas \in DOMAIN personas_file
    /\ all_personas' = personas_file[num_personas]
    /\ reviews' = << >>
    /\ rev_i' = 1
    /\ pc' = "b_rev"
    /\ UNCHANGED <<inputVars, segment_distribution, seg_i, rep_i,
                   persona_to_segment, variation_index, negative_sentiment_pct,
                   concerning_sentiment_pct, debateVars, insights, aggregate_call, events, at_yield,
                   calls, fails, outcome>>

\* generate_personas_node, lines 106-110: no file, scale_personas is entered
GeneratePersonasScale ==
    /\ Batch /\ pc = "b_node1"
    /\ num_personas \notin DOMAIN personas_file
    /\ all_segments # << >>
    /\ segment_distribution' = DefaultDistribution(num_personas, all_segments)
    /\ seg_i' = ScaleFirst(DefaultDistribution(num_personas, all_segments))
    /\ rep_i' = 0
    /\ all_personas' = << >>
    /\ pc' = "b_scale"
    /\ UNCHANGED <<inputVars, persona_to_segment, variation_index,
                   reviewVars, debateVars, insights, aggregate_call, events, at_yield, calls, fails,
                   outcome>>

\* generate_personas_node, line 109 with an empty catalog: ZeroDivisionError
GeneratePersonasRaises ==
    /\ Batch /\ pc = "b_node1"
    /\ num_personas \notin DOMAIN personas_file
    /\ all_segments = << >>
    /\ RaiseToCaller
    /\ UNCHANGED <<inputVars, personaVars, reviewVars, debateVars,
                   insights, aggregate_call, events, at_yield, calls, fails>>

\* generate_personas_node, lines 112-119: scale_personas returned
GeneratePersonasDone ==
    /\ Batch /\ pc = "b_scale"
    /\ ScaleOver
    /\ personas_file' = (num_personas :> all_personas) @@ personas_file
    /\ reviews' = << >>
    /\ rev_i' = 1
    /\ pc' = "b_rev"
    /\ UNCHANGED <<entry, num_personas, segment_configs, all_segments, run, retry,
                   personaVars, negative_sentiment_pct,
                   concerning_sentiment_pct, debateVars, insights, aggregate_call, events, at_yield,
                   calls, fails, outcome>>

\* mutant: the review is appended twice
BatchReviewOkTwice ==
    /\ Batch /\ pc = "b_rev"
    /\ rev_i <= Len(all_personas)
    /\ \E sentiment \in Sentiments :
         reviews' = reviews \o <<Review(all_personas[rev_i], "unknown", sentiment),
                                 Review(all_personas[rev_i], "unknown", sentiment)>>
    /\ rev_i' = rev_i + 1
    /\ calls' = Bump(calls, "review")
    /\ UNCHANGED <<inputVars, pc, personaVars, negative_sentiment_pct,
                   concerning_sentiment_pct, debateVars, insights, aggregate_call, events, at_yield,
                   fails, outcome>>

\* phase1_reviews_node, lines 146-160: b.ReviewPRD returns
BatchReviewOk ==
    /\ Batch /\ pc = "b_rev"
    /\ rev_i <= Len(all_personas)
    /\ \E sentiment \in Sentiments :
         reviews' = Append(reviews, Review(all_personas[rev_i], "unknown", sentiment))
    /\ rev_i' = rev_i + 1
    /\ calls' = Bump(calls, "review")
    /\ UNCHANGED <<inputVars, pc, personaVars, negative_sentiment_pct,
                   concerning_sentiment_pct, debateVars, insights, aggregate_call, events, at_yield,
                   fails, outcome>>

\* phase1_reviews_node, lines 169-171: b.ReviewPRD raises
BatchReviewFail ==
    /\ Batch /\ pc = "b_rev"
    /\ rev_i <= Len(all_personas)
    /\ rev_i' = rev_i + 1
    /\ calls' = Bump(calls, "review")
    /\ fails' = Bump(fails, "review")
    /\ UNCHANGED <<inputVars, pc, personaVars, reviews,
                   negative_sentiment_pct, concerning_sentiment_pct, debateVars,
                   insights, aggregate_call, events, at_yield, outcome>>

\* phase1_reviews_node, lines 173-187, with at least one review
Phase1Sentiment ==
    /\ Batch /\ pc = "b_rev"
    /\ rev_i > Len(all_personas)
    /\ BatchPctDefined(reviews)
    /\ negative_sentiment_pct' = BatchNegativePct(reviews)
    /\ pc' = "b_route"
    /\ UNCHANGED <<inputVars, personaVars, reviews, rev_i,
                   concerning_sentiment_pct, debateVars, insights, aggregate_call, events, at_yield,
                   calls, fails, outcome>>

\* phase1_reviews_node, line 179 with no review: ZeroDivisionError leaves the node
Phase1SentimentRaises ==
    /\ Batch /\ pc = "b_rev"
    /\ rev_i > Len(all_personas)
    /\ ~BatchPctDefined(reviews)
    /\ RaiseToCaller
    /\ UNCHANGED <<inputVars, personaVars, reviewVars, debateVars,
                   insights, aggregate_call, events, at_yield, calls, fails>>

\* the conditional edge, should_debate returns "debate": phase2_debates_node starts
RouteDebate ==
    /\ Batch /\ pc = "b_route"
    /\ should_debate(negative_sentiment_pct) = "debate"
    /\ debates' = << >>
    /\ deb_i' = 1
    /\ pc' = "b_deb"
    /\ UNCHANGED <<inputVars, personaVars, reviewVars, segment_keys,
                   debates_none, insights, aggregate_call, events, at_yield, calls, fails, outcome>>

\* mutant: skip_debate leads to END, not to aggregation
RouteSkipEnds ==
    /\ Batch /\ pc = "b_route"
    /\ should_debate(negative_sentiment_pct) = "skip_debate"
    /\ debates' = << >>
    /\ debates_none' = TRUE
    /\ pc' = "b_end"
    /\ UNCHANGED <<inputVars, personaVars, reviewVars, segment_keys,
                   deb_i, insights, aggregate_call, events, at_yield, calls, fails, outcome>>

\* should_debate returns "skip_debate": skip_debate_node, lines 281-285
RouteSkip ==
    /\ Batch /\ pc = "b_route"
    /\ should_debate(negative_sentiment_pct) = "skip_debate"
    /\ debates' = << >>
    /\ debates_none' = TRUE
    /\ pc' = "b_agg"
    /\ UNCHANGED <<inputVars, personaVars, reviewVars, segment_keys,
                   deb_i, insights, aggregate_call, events, at_yield, calls, fails, outcome>>

\* phase2_debates_node, lines 241-264: b.FacilitateDebate returns for a topic
BatchDebateOk ==
    /\ Batch /\ pc = "b_deb"
    /\ deb_i <= Len(DebateTopics)
    /\ debates' = Append(debates, [topic |-> DebateTopics[deb_i], segment_name |-> "mixed"])
    /\ deb_i' = deb_i + 1
    /\ calls' = Bump(calls, "debate")
    /\ UNCHANGED <<inputVars, pc, personaVars, reviewVars, segment_keys,
                   debates_none, insights, aggregate_call, events, at_yield, fails, outcome>>

\* phase2_debates_node, lines 266-268: b.FacilitateDebate raises
BatchDebateFail ==
    /\ Batch /\ pc = "b_deb"
    /\ deb_i <= Len(DebateTopics)
    /\ deb_i' = deb_i + 1
    /\ calls' = Bump(calls, "debate")
    /\ fails' = Bump(fails, "debate")
    /\ UNCHANGED <<inputVars, pc, personaVars, reviewVars, segment_keys,
                   debates, debates_none, insights, aggregate_call, events, at_yield, outcome>>

\* phase2_debates_node, lines 270-277: state["debates"] = debates
Phase2Done ==
    /\ Batch /\ pc = "b_deb"
    /\ deb_i > Len(DebateTopics)
    /\ debates_none' = FALSE
    /\ pc' = "b_agg"
    /\ UNCHANGED <<inputVars, personaVars, reviewVars, segment_keys,
                   deb_i, debates, insights, aggregate_call, events, at_yield, calls, fails, outcome>>

\* aggregation_node, lines 301-330: reviews = state["reviews"],
\* debates = state.get("debates", []) or [], total_personas=len(reviews)
BatchAggregateCall ==
    AggregateCall(reviews, IF debates_none THEN << >> ELSE debates, Len(reviews))

\* aggregation_node, lines 324-337: b.AggregateReviews returns
BatchAggregateOk ==
    /\ Batch /\ pc = "b_agg"
    /\ aggregate_call' = BatchAggregateCall
    /\ \E sb \in SentimentBreakdowns(BatchAggregateCall) :
         insights' = AggregatedInsights(sb)
    /\ calls' = Bump(calls, "aggregate")
    /\ pc' = "b_end"
    /\ UNCHANGED <<inputVars, personaVars, reviewVars, debateVars,
                   events, at_yield, fails, outcome>>

\* aggregation_node, lines 339-343: the call raises; the node prints the error,
\* sets final_insights to None and returns the state
BatchAggregateFail ==
    /\ Batch /\ pc = "b_agg"
    /\ aggregate_call' = BatchAggregateCall
    /\ insights' = None
    /\ calls' = Bump(calls, "aggregate")
    /\ fails' = Bump(fails, "aggregate")
    /\ pc' = "b_end"
    /\ UNCHANGED <<inputVars, personaVars, reviewVars, debateVars,
                   events, at_yield, outcome>>

\* run_workflow, lines 501-526: return final_state["final_insights"]
RunWorkflowReturn ==
    /\ entry = "run_workflow" /\ pc = "b_end"
    /\ outcome' = "returned"
    /\ pc' = "done"
    /\ UNCHANGED <<inputVars, personaVars, reviewVars, debateVars,
                   insights, aggregate_call, events, at_yield, calls, fails>>

\* api_server.py lines 551-599: the handler reads the insights and returns
ApiReturn ==
    /\ entry = "api_review" /\ pc = "b_end"
    /\ insights # None
    /\ outcome' = "returned"
    /\ pc' = "done"
    /\ UNCHANGED <<inputVars, personaVars, reviewVars, debateVars,
                   insights, aggregate_call, events, at_yield, calls, fails>>

\* api_server.py line 553 on None: AttributeError, HTTPException(500) at line 602
ApiReturnRaises ==
    /\ entry = "api_review" /\ pc = "b_end"
    /\ insights = None
    /\ RaiseToCaller
    /\ UNCHANGED <<inputVars, personaVars, reviewVars, debateVars,
                   insights, aggregate_call, events, at_yield, calls, fails>>

BatchNext ==
    \/ ApiScale \/ ApiScaleRaises \/ ScaleOk \/ ScaleFail \/ ApiInvoke
    \/ RunWorkflow
    \/ GeneratePersonasLoad \/ GeneratePersonasScale \/ GeneratePersonasRaises
    \/ GeneratePersonasDone
    \/ BatchReviewOk \/ BatchReviewFail \/ Phase1Sentiment \/ Phase1SentimentRaises
    \/ RouteDebate \/ RouteSkip
    \/ BatchDebateOk \/ BatchDebateFail \/ Phase2Done
    \/ BatchAggregateOk \/ BatchAggregateFail
    \/ RunWorkflowReturn \/ ApiReturn \/ ApiReturnRaises

\* the working directory a run starts in: no persona file, or the file of one
\* count c, left by an earlier run or by persona_scaling.py line 191; the
\* file of count c holds at most c personas
WorkingDirectories(counts) ==
    {NoFiles} \cup UNION {{c :> FilePersonas(m) : m \in 0..Min({c, MaxFilePersonas})} :
                              c \in counts}

\* run_workflow takes any personas_count; the /api/review request model admits
\* MinPersonas..300.  The graph reads only the file of its own personas_count:
\* num_personas under run_workflow, the number of personas scale_personas
\* returned under /api/review (the full default split stands for the smaller
\* counts a failed synthesis leaves)
BatchInit ==
    /\ \/ /\ entry = "run_workflow"
          /\ pc = "b_start"
          /\ num_personas \in 0..MaxN
          /\ personas_file \in WorkingDirectories({num_personas})
       \/ /\ entry = "api_review"
          /\ pc = "a_start"
          /\ num_personas \in MinPersonas..MaxN
          /\ personas_file \in WorkingDirectories(
                 {(num_personas \div Len(Catalog)) * Len(Catalog)})
    /\ run = 1
    /\ retry = NoRetry
    /\ segment_configs = [given |-> FALSE, list |-> << >>]
    /\ all_segments \in Catalogs
    /\ debates_none = TRUE
    /\ FreshRun

-----------------------------------------------------------------------------
(* The pipeline, on any entry point *)

Init == StreamInit \/ BatchInit

Next == StreamNext \/ BatchNext

Spec == Init /\ [][Next]_vars


-----------------------------------------------------------------------------
(* RouterSpec: the sentiment computation and the router of each path, from *)
(* the states in which a review loop has just ended with up to MaxReviews  *)
(* reviews. The streaming states are those of a run whose request is one   *)
(* custom segment of t personas, every synthesis and review succeeding;    *)
(* the batch states those of run_workflow over a personas file of t        *)
(* personas. The reviews carry neg negative, then neu neutral, then        *)
(* positive sentiments.                                                    *)

SortedSentiments(neg, neu, t) ==
    [i \in 1..t |-> IF i <= neg THEN "negative"
                    ELSE IF i <= neg + neu THEN "neutral" ELSE "positive"]

SentimentLists ==
    {SortedSentiments(neg, neu, t) :
        neg \in 0..MaxReviews, neu \in 0..MaxReviews, t \in 0..MaxReviews}

CustomPersonas(t) ==
    [i \in 1..t |-> [name |-> i, idx |-> i - 1, origin |-> "custom_x",
                     variation_prompt |-> variation_prompt(i - 1)]]

\* the events a streaming run of one custom segment of t personas has yielded
\* when its review loop ends
EventsBeforeRouting(t) ==
    <<Ev("progress", "initialization", "", 0),
      Ev("progress", "persona_generation", "", 0),
      Ev("progress", "persona_generation", "", 0)>>
    \o (IF t > 0 THEN <<Ev("progress", "persona_generation", "custom_x", t)>> ELSE << >>)
    \o [i \in 1..t |-> Ev("persona_generated", "", "custom_x", i)]
    \o <<Ev("progress", "persona_generation_complete", "", t),
         Ev("progress", "workflow_creation", "", 0),
         Ev("progress", "phase1_reviews", "", t),
         Ev("progress", "phase1_executing", "", 0)>>
    \o [i \in 1..t |-> Ev("review_generated", "", "", i)]

RouterCommonInit(t) ==
    /\ run = 1
    /\ retry = NoRetry
    /\ rev_i = t + 1
    /\ negative_sentiment_pct = Zero
    /\ concerning_sentiment_pct = Zero
    /\ segment_keys = << >>
    /\ deb_i = 0
    /\ debates = << >>
    /\ insights = None
    /\ aggregate_call = None
    /\ fails = NoCalls
    /\ outcome = "running"

RouterStreamInit ==
    \E sents \in SentimentLists :
      LET t == Len(sents)
          configs == <<[segment_id |-> "custom_x", count |-> t]>>
      IN /\ entry = "stream"
         /\ pc = "s_rev"
         /\ num_personas = MinPersonas
         /\ segment_configs = [given |-> TRUE, list |-> configs]
         /\ all_segments = Catalog
         /\ segment_distribution = CustomDistribution(configs, Catalog)
         /\ seg_i = Len(CustomDistribution(configs, Catalog))
         /\ all_personas = CustomPersonas(t)
         /\ persona_to_segment = [i \in 1..t |-> "custom_x"]
         /\ variation_index = t
         /\ rep_i = t
         /\ reviews = [i \in 1..t |-> Review(CustomPersonas(t)[i], "custom_x", sents[i])]
         /\ debates_none = FALSE
         /\ events = EventsBeforeRouting(t)
         /\ at_yield = TRUE
         /\ calls = [synth |-> t, review |-> t, debate |-> 0, aggregate |-> 0]
         /\ personas_file = NoFiles
         /\ RouterCommonInit(t)

RouterBatchInit ==
    \E sents \in SentimentLists :
      LET t == Len(sents)
      IN /\ entry = "run_workflow"
         /\ pc = "b_rev"
         /\ num_personas = t
         /\ segment_configs = [given |-> FALSE, list |-> << >>]
         /\ all_segments = Catalog
         /\ segment_distribution = << >>
         /\ seg_i = 0
         /\ all_personas = FilePersonas(t)
         /\ persona_to_segment = << >>
         /\ variation_index = 0
         /\ rep_i = 0
         /\ reviews = [i \in 1..t |-> Review(FilePersonas(t)[i], "unknown", sents[i])]
         /\ debates_none = TRUE
         /\ events = << >>
         /\ at_yield = FALSE
         /\ calls = [synth |-> 0, review |-> t, debate |-> 0, aggregate |-> 0]
         /\ personas_file = (t :> FilePersonas(t))
         /\ RouterCommonInit(t)

RouterInit == RouterStreamInit \/ RouterBatchInit

RouterNext ==
    \/ ReviewComplete \/ DebatesStarting \/ DebateSkipped
    \/ Phase1Sentiment \/ Phase1SentimentRaises \/ RouteDebate \/ RouteSkip

RouterSpec == RouterInit /\ [][RouterNext]_vars


\* the consumer keeps iterating the generator and every oracle call returns or
\* raises: a step of the streaming run that can be taken is eventually taken
FairSpec == StreamInit /\ [][StreamNext]_vars /\ WF_vars(StreamNext)

-----------------------------------------------------------------------------
(* Reading the event stream *)

HasType(t) == \E i \in 1..Len(events) : events[i].type = t
CountType(t) == Cardinality({i \in 1..Len(events) : events[i].type = t})
HasPhase(p) ==
    \E i \in 1..Len(events) : events[i].type = "progress" /\ events[i].phase = p
CountPhase(p) ==
    Cardinality({i \in 1..Len(events) :
                    events[i].type = "progress" /\ events[i].phase = p})
LastType == IF events = << >> THEN "none" ELSE events[Len(events)].type

\* the phase of the progress state machine an event belongs to: INIT 0,
\* PERSONA_GENERATION 1, REVIEW 2, SENTIMENT_EVALUATED 3, DEBATE or
\* DEBATE_SKIPPED 4, AGGREGATING 5, COMPLETE 6, ERROR 7
PhaseRank(e) ==
    CASE e.type = "error" -> 7
      [] e.type = "complete" -> 6
      [] e.type = "final_result" -> 5
      [] e.type \in {"debate_generated", "debate_complete"} -> 4
      [] e.type = "review_complete" -> 3
      [] e.type = "review_generated" -> 2
      [] e.type = "persona_generated" -> 1
      [] e.type = "progress" ->
           CASE e.phase = "initialization" -> 0
             [] e.phase \in {"persona_generation", "persona_generation_complete"} -> 1
             [] e.phase \in {"workflow_creation", "phase1_reviews",
                             "phase1_executing"} -> 2
             [] e.phase \in {"debates_starting", "debate_running",
                             "debate_skipped"} -> 4
             [] e.phase = "aggregating" -> 5

\* the events that mark the DEBATE branch, as opposed to DEBATE_SKIPPED
InDebateBranch(e) ==
    \/ e.type \in {"debate_generated", "debate_complete"}
    \/ e.type = "progress" /\ e.phase \in {"debates_starting", "debate_running"}

-----------------------------------------------------------------------------
(* Claims *)

\* C1: every streaming run the consumer does not cancel ends, and the last
\* event of its stream is `complete` or `error`, whichever oracle calls fail.
C1_StreamEndsInCompleteOrError ==
    (entry = "stream") =>
        <>(\/ pc = "closed"
           \/ pc = "done" /\ LastType \in {"complete", "error"})

\* a run in which a review and a debate failed and that ended in `complete`
C1_Witness ==
    /\ entry = "stream" /\ pc = "done"
    /\ LastType = "complete"
    /\ fails.review >= 1 /\ fails.debate >= 1

\* C2: an `error` event is terminal: it is the last event of its stream, the
\* generator has returned, there is at most one, and no stream holds both
\* `error` and `complete`.
C2_ErrorIsTerminal ==
    (entry = "stream") =>
        /\ \A i \in 1..Len(events) :
              events[i].type = "error" => i = Len(events) /\ pc = "done"
        /\ CountType("error") <= 1
        /\ ~(HasType("error") /\ HasType("complete"))

\* a stream that ended in `error` after reviews were streamed
C2_Witness ==
    /\ entry = "stream" /\ pc = "done"
    /\ LastType = "error"
    /\ HasType("review_generated")

C3_ErrorAfterSkip ==
    /\ entry = "stream" /\ pc = "done"
    /\ LastType = "error"
    /\ HasPhase("debate_skipped")
    /\ HasPhase("aggregating")

\* ERROR entered from PERSONA_GENERATION
C3_ErrorInPersonaGeneration ==
    /\ entry = "stream" /\ pc = "done"
    /\ LastType = "error"
    /\ HasType("persona_generated")
    /\ ~HasPhase("persona_generation_complete")

\* C4: review failures are tolerated: with n personas and k failed review
\* invocations the run holds n - k reviews and n - k `review_generated` events
\* once the review loop is over, an `error` after the review stage began comes
\* from the aggregate call alone, and the run that reaches its end with the
\* aggregate call succeeding ends in `complete`.
C4_PartialReviewFailure ==
    (entry = "stream") =>
        /\ Len(reviews) = calls.review - fails.review
        /\ CountType("review_generated") = Len(reviews)
        /\ HasType("review_complete") =>
              /\ calls.review = Len(all_personas)
              /\ Len(reviews) = Len(all_personas) - fails.review
        /\ (HasType("error") /\ HasPhase("phase1_executing")) => fails.aggregate = 1
        /\ (pc = "done" /\ HasPhase("phase1_executing") /\ fails.aggregate = 0) =>
              /\ LastType = "complete"
              /\ Len(reviews) = Len(all_personas) - fails.review

\* a run of 4 personas with 2 failed reviews ended in `complete`
C4_Witness ==
    /\ entry = "stream" /\ pc = "done"
    /\ LastType = "complete"
    /\ Len(all_personas) = 4
    /\ fails.review = 2
    /\ Len(reviews) = 2
    /\ CountType("review_generated") = 2
    /\ ~HasType("error")

\* C5: at most one review per persona, on the streaming and on the batch path:
\* len(reviews) <= len(personas), every review is of a persona of the list, and
\* no two reviews are of the same persona.
C5_AtMostOneReviewPerPersona ==
    /\ Len(reviews) <= Len(all_personas)
    /\ \A i \in 1..Len(reviews) :
          \E k \in 1..Len(all_personas) : all_personas[k].idx = reviews[i].persona
    /\ \A i, j \in 1..Len(reviews) :
          reviews[i].persona = reviews[j].persona => i = j

\* the batch review loop ended with one persona unreviewed and the others
\* reviewed once
C5_Witness ==
    /\ entry = "run_workflow" /\ pc = "b_route"
    /\ Len(all_personas) = 4
    /\ Len(reviews) = 3
    /\ fails.review = 1


\* the reviews of the run whose sentiment is negative or neutral, counted on
\* the review list itself
ConcerningReviews ==
    Cardinality({i \in 1..Len(reviews) : reviews[i].overall_sentiment # "positive"})
NegativeReviews ==
    Cardinality({i \in 1..Len(reviews) : reviews[i].overall_sentiment = "negative"})

\* the streaming router has decided
StreamRouted == HasPhase("debates_starting") \/ HasPhase("debate_skipped")

BatchRouted == entry \in {"run_workflow", "api_review"} /\ pc \in {"b_deb", "b_agg"}
BatchRoutedToDebate == pc = "b_deb" \/ (pc = "b_agg" /\ ~debates_none)

\* C7: the batch router routes to the debate node iff negative_pct =
\* negative_count / total_reviews * 100 > 30, counting negative reviews only;
\* at exactly 30 it routes to skip_debate.
C7_BatchRouterStrict ==
    BatchRouted =>
        (BatchRoutedToDebate <=> NegativeReviews * 100 > 30 * Len(reviews))

\* 3 negative and 7 neutral reviews: negative_pct is exactly 30, every review
\* is concerning, and the router skipped the debate
C7_Witness ==
    /\ BatchRouted /\ ~BatchRoutedToDebate
    /\ Len(reviews) = 10
    /\ NegativeReviews = 3
    /\ ConcerningReviews = 10

\* the review stage of the run is over
ReviewStageOver ==
    /\ rev_i >= 1
    /\ rev_i > Len(all_personas)
    /\ pc \notin {"s_rev", "b_rev", "closed"}

\* C8: a review stage that produced no review is not an error, on either
\* path: the percentages are 0, the debate stage is skipped, and the run goes
\* on to the aggregate call without raising or emitting `error`.
C8_ZeroReviewsIsNoError ==
    (ReviewStageOver /\ reviews = << >>) =>
        /\ negative_sentiment_pct.num = 0
        /\ concerning_sentiment_pct.num = 0
        /\ ~HasPhase("debates_starting")
        /\ calls.debate = 0
        /\ (HasType("error") \/ outcome = "raised") => fails.aggregate = 1

\* C9: a failed aggregate call is surfaced: the stream ends in `error` and
\* holds no `final_result` or `complete`; the batch caller never gets a normal
\* return.
C9_AggregationFailureIsFatal ==
    fails.aggregate >= 1 =>
        /\ entry = "stream" =>
              /\ pc = "done"
              /\ LastType = "error"
              /\ ~HasType("final_result")
              /\ ~HasType("complete")
        /\ outcome # "returned"

\* C10: a stream that ends in `complete` made exactly one aggregate call and
\* holds exactly one `final_result` and one `complete`, `final_result` right
\* before `complete`; if all reviews are positive it holds no
\* `debate_generated`. No run calls the aggregate oracle twice.
C10_InsightExactlyOnce ==
    (entry = "stream") =>
        /\ calls.aggregate <= 1
        /\ CountType("final_result") <= 1
        /\ HasType("complete") =>
              /\ calls.aggregate = 1
              /\ fails.aggregate = 0
              /\ insights # None
              /\ CountType("final_result") = 1
              /\ CountType("complete") = 1
              /\ events[Len(events)].type = "complete"
              /\ events[Len(events) - 1].type = "final_result"
              /\ ConcerningReviews = 0 => CountType("debate_generated") = 0

\* 4 personas, all reviews positive: debate skipped, one final_result, one
\* complete
C10_Witness ==
    /\ entry = "stream" /\ pc = "done"
    /\ LastType = "complete"
    /\ Len(reviews) = 4
    /\ ConcerningReviews = 0
    /\ HasPhase("debate_skipped")
    /\ CountType("debate_generated") = 0
    /\ CountType("final_result") = 1


\* sample_reviews = reviews[:10], the review set every batch debate is given
SampleReviews == SubSeq(reviews, 1, Min({Len(reviews), SampleSize}))

\* C11: every debate invocation, and so every DebateSession, is for a segment
\* (streaming) or a review set (batch) holding at least 2 reviews whose
\* sentiment is negative or neutral.
C11_DebateOnlyWithTwoConcerning ==
    /\ entry = "stream" =>
          /\ \A i \in 1..Len(debates) : Eligible(reviews, debates[i].segment_name)
          /\ \A i \in 1..Len(events) :
                events[i].phase = "debate_running" => Eligible(reviews, events[i].seg)
          /\ calls.debate > 0 => HasPhase("debate_running")
    /\ Batch =>
          (calls.debate > 0 => CountIf(SampleReviews, IsConcerning) >= MinConcerning)


\* streaming runs from a fresh request, and streaming runs of one custom
\* segment of up to MaxReviews personas taken up at the end of the review loop
DebateInit == StreamInit \/ RouterStreamInit
DebateSpec == DebateInit /\ [][StreamNext]_vars

\* a debate invocation was made for segment k: `debate_running` is yielded
\* right before b.FacilitateDebate is called
Selected(k) ==
    \E i \in 1..Len(events) :
       events[i].type = "progress" /\ events[i].phase = "debate_running"
                                   /\ events[i].seg = k
SelectedSegments == {events[i].seg : i \in {j \in 1..Len(events) :
                        events[j].type = "progress" /\ events[j].phase = "debate_running"}}

\* the segments the reviews of the run name
SegmentsReviewed == {reviews[i].reviewer_segment : i \in 1..Len(reviews)}

\* the segments lines 299-317 select on the review list rs
SelectionOn(rs) ==
    IF StreamShouldDebate(StreamConcerningPct(rs))
    THEN {k \in Range(GroupKeys(rs)) : Eligible(rs, k)}
    ELSE {}

\* rs with the reviews at positions i and i + 1 exchanged
SwapAt(rs, i) ==
    [j \in 1..Len(rs) |-> IF j = i THEN rs[i + 1] ELSE IF j = i + 1 THEN rs[i] ELSE rs[j]]

C13_DebateFailureIsolated ==
    /\ Len(debates) = calls.debate - fails.debate
    /\ entry = "stream" =>
          /\ (HasPhase("aggregating") /\ HasPhase("debates_starting")) =>
                \A k \in SegmentsReviewed : SegNegative(reviews, k) >= 2 => Selected(k)
          /\ HasPhase("aggregating") =>
                calls.debate = Cardinality(SelectedSegments)
          /\ (fails.debate >= 1 /\ HasType("error")) => fails.aggregate = 1
          /\ (fails.debate >= 1 /\ pc = "done") => calls.aggregate = 1
          /\ (fails.debate >= 1 /\ pc = "done" /\ fails.aggregate = 0) =>
                LastType = "complete"
    /\ entry \in {"run_workflow", "api_review"} =>
          /\ (calls.debate > 0 /\ pc \in {"b_agg", "b_end", "done"}) =>
                calls.debate = Len(DebateTopics)
          /\ (fails.debate >= 1 /\ pc \in {"b_end", "done"}) => calls.aggregate = 1
          /\ (fails.debate >= 1 /\ outcome = "raised") => fails.aggregate = 1

\* two eligible segments: the debate of the first failed, the debate of the
\* second was still made and produced, and the stream ended in `complete`
C13_Witness ==
    /\ entry = "stream" /\ pc = "done"
    /\ LastType = "complete"
    /\ calls.debate = 2 /\ fails.debate = 1
    /\ Len(debates) = 1
    /\ debates[1].segment_name = segment_keys[2]

\* every debate of a batch run failed and the caller still got the insights
C13_ZeroDebatesProduced ==
    /\ entry = "run_workflow" /\ outcome = "returned"
    /\ fails.debate = Len(DebateTopics)
    /\ debates = << >>
    /\ insights # None


-----------------------------------------------------------------------------
(* The Segment Allocator on its own: api_server.py lines 105-170 applied to *)
(* requests wider than those the whole pipeline is run on                   *)

\* largest persona count requested of the allocator
MaxAllocN == 9
\* largest count of one entry handed to the allocator
MaxAllocCount == 3

AllocEntries == [segment_id : ConfigIds, count : 0..MaxAllocCount]

AllocLists ==
    {<< >>} \cup {<<e>> : e \in AllocEntries}
            \cup {<<e, f>> : e \in AllocEntries, f \in AllocEntries}
            \cup {<<e, f, g>> : e \in AllocEntries, f \in AllocEntries,
                                g \in AllocEntries}

\* a streaming run that has yielded its first two events and is about to build
\* segment_distribution (line 108)
AllocInit ==
    /\ entry = "stream"
    /\ pc = "s_dist"
    /\ personas_file = NoFiles
    /\ run = 1
    /\ retry = NoRetry
    /\ num_personas \in MinPersonas..MaxAllocN
    /\ \/ segment_configs = [given |-> FALSE, list |-> << >>]
       \/ \E l \in AllocLists : segment_configs = [given |-> TRUE, list |-> l]
    /\ all_segments \in Catalogs
    /\ debates_none = FALSE
    /\ segment_distribution = << >>
    /\ seg_i = 0
    /\ rep_i = 0
    /\ all_personas = << >>
    /\ persona_to_segment = << >>
    /\ variation_index = 0
    /\ reviews = << >>
    /\ rev_i = 0
    /\ negative_sentiment_pct = Zero
    /\ concerning_sentiment_pct = Zero
    /\ segment_keys = << >>
    /\ deb_i = 0
    /\ debates = << >>
    /\ insights = None
    /\ aggregate_call = None
    /\ events = <<Ev("progress", "initialization", "", 0),
                  Ev("progress", "persona_generation", "", 0)>>
    /\ at_yield = TRUE
    /\ calls = NoCalls
    /\ fails = NoCalls
    /\ outcome = "running"

AllocNext ==
    \/ BuildCustomDistribution
    \/ BuildDefaultDistribution
    \/ BuildDefaultDistributionRaises

AllocSpec == AllocInit /\ [][AllocNext]_vars

\* segment_distribution has been built
Allocated == entry = "stream" /\ pc = "s_seg"

\* the sum of the per-segment counts of the allocation
AllocatedTotal ==
    LET RECURSIVE Sum(_)
        Sum(i) == IF i = 0 THEN 0 ELSE segment_distribution[i].count + Sum(i - 1)
    IN Sum(Len(segment_distribution))

\* C14: the per-segment counts of every allocation sum to at most
\* num_personas, and to exactly num_personas when num_personas divides evenly
\* across the catalog (default split) or an explicit distribution is supplied.
C14_AllocationSumsToRequest ==
    Allocated =>
        /\ AllocatedTotal <= num_personas
        /\ (segment_configs.given /\ segment_configs.list # << >>) =>
              AllocatedTotal = num_personas
        /\ (~(segment_configs.given /\ segment_configs.list # << >>)
            /\ num_personas % Len(all_segments) = 0) =>
              AllocatedTotal = num_personas


\* the run was given an explicit, non-empty distribution and has built
\* segment_distribution from it: the progress event of line 152 was yielded
ExplicitAllocated ==
    /\ entry = "stream"
    /\ segment_configs.given /\ segment_configs.list # << >>
    /\ CountPhase("persona_generation") >= 2

\* the supplied entry at position j is one the allocator keeps: count > 0 and
\* an id that is custom or in the catalog
Kept(j) ==
    LET e == segment_configs.list[j]
    IN /\ e.count > 0
       /\ \/ e.segment_id = "custom_x"
          \/ \E i \in 1..Len(all_segments) : all_segments[i] = e.segment_id

\* C15 (as amended): with an explicit non-empty distribution the allocation
\* holds one entry per distinct segment id among the supplied entries that
\* have count > 0 and a custom or catalog id, with the count of the last such
\* entry of that id; entries with count <= 0 or an unknown non-custom id are
\* dropped without error, and personas are synthesized for allocated segments
\* only, at most the allocated count each.
C15_ExplicitAllocation ==
    ExplicitAllocated =>
        LET L == segment_configs.list
            D == segment_distribution
        IN /\ \A i \in 1..Len(D) :
                 \E j \in 1..Len(L) :
                    /\ Kept(j)
                    /\ L[j].segment_id = D[i].segment_id
                    /\ L[j].count = D[i].count
                    /\ \A h \in (j + 1)..Len(L) :
                          Kept(h) => L[h].segment_id # L[j].segment_id
           /\ \A j \in 1..Len(L) :
                 Kept(j) => \E i \in 1..Len(D) : D[i].segment_id = L[j].segment_id
           /\ \A i, h \in 1..Len(D) : D[i].segment_id = D[h].segment_id => i = h
           /\ \A i \in 1..Len(all_personas) :
                 \E h \in 1..Len(D) : D[h].segment_id = all_personas[i].origin
           /\ \A h \in 1..Len(D) :
                 Cardinality({i \in 1..Len(all_personas) :
                                 all_personas[i].origin = D[h].segment_id}) <= D[h].count
           /\ HasPhase("persona_generation_complete") =>
                 \A h \in 1..Len(D) :
                    Cardinality({i \in 1..Len(all_personas) :
                                    all_personas[i].origin = D[h].segment_id}) = D[h].count
           /\ HasType("error") => fails.synth + fails.aggregate >= 1

\* an entry with an unknown id was dropped, the other entry was allocated and
\* its personas, and no other, were synthesized
C15_Witness ==
    /\ ExplicitAllocated
    /\ HasPhase("persona_generation_complete")
    /\ Len(segment_configs.list) = 2
    /\ \E j \in 1..2 : segment_configs.list[j] = [segment_id |-> "ghost", count |-> 1]
    /\ Len(segment_distribution) = 1
    /\ Len(all_personas) = 2

\* C15 as stated: the allocation holds exactly the supplied entries with
\* count > 0 and a custom or catalog id, each with its supplied count.
C15_EverySuppliedEntryAllocated ==
    ExplicitAllocated =>
        LET L == segment_configs.list
            D == segment_distribution
        IN /\ \A j \in 1..Len(L) :
                 Kept(j) => \E i \in 1..Len(D) :
                               /\ D[i].segment_id = L[j].segment_id
                               /\ D[i].count = L[j].count
           /\ \A i \in 1..Len(D) :
                 \E j \in 1..Len(L) :
                    /\ Kept(j)
                    /\ L[j].segment_id = D[i].segment_id
                    /\ L[j].count = D[i].count


\* C16: a run whose allocation holds no segment (every supplied entry has
\* count 0 or an unknown non-custom id) fails fatally: it makes no oracle call
\* and, when it ends, ends in `error`.
C16_ZeroSegmentsIsFatal ==
    (ExplicitAllocated /\ segment_distribution = << >>) =>
        /\ calls = NoCalls
        /\ ~HasType("final_result")
        /\ ~HasType("complete")
        /\ pc = "done" => LastType = "error"


\* the run made no oracle call and did not end normally
Rejected ==
    /\ calls = NoCalls
    /\ outcome # "returned"
    /\ ~HasType("complete")

\* C17: a run asked for fewer than MinPersonas personas (run_workflow takes
\* any personas_count; the request model of the API admits MinPersonas..300
\* only), and a run over an empty segment catalog, makes no oracle call and
\* does not end normally, on any entry point.
C17_InvalidConfigurationRejected ==
    /\ (entry = "run_workflow" /\ num_personas < MinPersonas) => Rejected
    /\ all_segments = << >> => Rejected


\* C18: a failed persona synthesis is recovered locally: the persona is
\* dropped, synthesis goes on with the remaining personas and segments, and
\* neither the stream nor the batch caller sees an error because of it (a
\* batch run left with no review at all fails at line 179 whatever the cause).
C18_SynthesisFailureRecovered ==
    fails.synth >= 1 =>
        /\ entry \in {"stream", "run_workflow"} =>
              Len(all_personas) = calls.synth - fails.synth
        /\ entry = "stream" =>
              /\ HasType("error") => fails.aggregate = 1
              /\ pc = "done" => HasPhase("persona_generation_complete")
        /\ entry \in {"run_workflow", "api_review"} =>
              (outcome = "raised" => (fails.aggregate = 1 \/ reviews = << >>))


\* C19: each unit of generated data has exactly one event: in every state of
\* a streaming run, and so at its end, the stream holds as many
\* `persona_generated` events as all_personas holds personas, as many
\* `review_generated` events as reviews holds reviews and as many
\* `debate_generated` events as debates holds debates.
C19_OneEventPerUnit ==
    (entry = "stream") =>
        /\ CountType("persona_generated") = Len(all_personas)
        /\ CountType("review_generated") = Len(reviews)
        /\ CountType("debate_generated") = Len(debates)
        /\ Len(all_personas) = calls.synth - fails.synth
        /\ Len(reviews) = calls.review - fails.review

\* a stream that ended in `complete` with 4 personas, 3 reviews and a debate,
\* one review invocation having failed without an event
C19_Witness ==
    /\ entry = "stream" /\ pc = "done"
    /\ LastType = "complete"
    /\ Len(all_personas) = 4
    /\ Len(reviews) = 3 /\ fails.review = 1
    /\ Len(debates) = 1
    /\ CountType("debate_generated") = 1


\* the events of type t, in stream order
EventsOfType(t) ==
    LET RECURSIVE Pick(_)
        Pick(i) == IF i = 0 THEN << >>
                   ELSE IF events[i].type = t THEN Append(Pick(i - 1), events[i])
                   ELSE Pick(i - 1)
    IN Pick(Len(events))

\* the position in all_personas of the persona object a review was made for
PersonaPosition(r) ==
    CHOOSE k \in 1..Len(all_personas) : all_personas[k].idx = r.persona

\* C20: the events of a stream follow persona-processing order: the k-th
\* `persona_generated` event is for the k-th persona appended to the persona
\* list, and the persona of each `review_generated` event comes later in the
\* persona list than the persona of every earlier `review_generated` event
\* (the event of total_so_far = n is for the review reviews[n]).
C20_EventsInPersonaOrder ==
    (entry = "stream") =>
        LET pg == EventsOfType("persona_generated")
            rg == EventsOfType("review_generated")
        IN /\ Len(pg) <= Len(all_personas)
           /\ \A k \in 1..Len(pg) :
                 /\ pg[k].n = k
                 /\ pg[k].seg = all_personas[k].origin
           /\ Len(rg) <= Len(reviews)
           /\ \A k \in 1..Len(rg) : rg[k].n \in 1..Len(reviews)
           /\ \A k, h \in 1..Len(rg) :
                 k < h => PersonaPosition(reviews[rg[k].n])
                             < PersonaPosition(reviews[rg[h].n])

\* personas of two segments were streamed in allocation order, the review of
\* the second persona failed, and the reviews of the first and the third were
\* streamed in that order
C20_Witness ==
    /\ entry = "stream"
    /\ Len(segment_distribution) = 2
    /\ Len(all_personas) >= 3
    /\ CountType("persona_generated") = Len(all_personas)
    /\ Len(reviews) = 2
    /\ CountType("review_generated") = 2
    /\ reviews[1].persona = all_personas[1].idx
    /\ reviews[2].persona = all_personas[3].idx


\* ---------------------------------------------------------------------------
\* Oracle calls that never return.  Every b.* call of the streaming pipeline
\* (src/api_server.py lines 189, 255, 337, 422) is a plain synchronous call
\* without a timeout argument and without a surrounding wait: when the call
\* does not return, control never comes back to the generator.

\* the generator is inside one of its four oracle calls
InOracleCall ==
    \/ pc = "s_gen" /\ rep_i < segment_distribution[seg_i].count
    \/ pc = "s_rev" /\ rev_i <= Len(all_personas)
    \/ pc = "s_deb_call"
    \/ pc = "s_agg_call"

\* which oracle the call at the current position goes to
OracleAt ==
    CASE pc = "s_gen" -> "synth"
      [] pc = "s_rev" -> "review"
      [] pc = "s_deb_call" -> "debate"
      [] OTHER -> "aggregate"

\* the call was made and does not return: the generator is not suspended at a
\* yield, it is inside the call, and no statement after the call is executed
OracleNeverReturns ==
    /\ Streaming /\ InOracleCall
    /\ calls' = Bump(calls, OracleAt)
    /\ pc' = "blocked"
    /\ at_yield' = FALSE
    /\ UNCHANGED <<inputVars, personaVars, reviewVars, debateVars,
                   insights, aggregate_call, events, fails, outcome>>

HangNext == StreamNext \/ OracleNeverReturns

\* every step the program can take is taken; nothing else is assumed
HangSpec == StreamInit /\ [][HangNext]_vars /\ WF_vars(HangNext)

C21_BlockedCallCountedAsFailure ==
    pc = "blocked" =>
        fails.synth + fails.review + fails.debate + fails.aggregate >= 1


\* C22: closing the generator at a yield is cancellation: the step that closes
\* the stream makes no oracle call, yields nothing (so no `error`), and leaves
\* the personas, reviews and debates as they were; a closed stream takes no
\* further step, and its event list holds no `error`.
C22_CloseIsCancellation ==
    [][/\ pc' = "closed" =>
            /\ calls' = calls /\ fails' = fails
            /\ events' = events
            /\ \A i \in 1..Len(events') : events'[i].type # "error"
            /\ all_personas' = all_personas
            /\ reviews' = reviews
            /\ debates' = debates
       /\ pc = "closed" => pc' = "closed"]_vars

\* the stream was closed between two reviews: one persona is reviewed, another
\* is still waiting
C22_Witness ==
    /\ Streaming /\ pc = "closed"
    /\ calls.review >= 1
    /\ calls.review < Len(all_personas)
    /\ Len(reviews) >= 1


\* ---------------------------------------------------------------------------
\* Consecutive batch runs in one working directory.  generate_personas_node
\* writes the personas it synthesized to generated_personas_{count}.json
\* (lines 112-116) and a later run of the same count finds the file (line 98).

MaxRuns == 2

\* run_workflow is called again with the same personas_count after the last
\* run returned or raised: a new initial_state is built (lines 478-490); the
\* working directory is what the earlier runs left
NextRun ==
    /\ entry = "run_workflow" /\ pc = "done"
    /\ run < MaxRuns
    /\ run' = run + 1
    /\ pc' = "b_start"
    /\ segment_distribution' = << >>
    /\ seg_i' = 0
    /\ rep_i' = 0
    /\ all_personas' = << >>
    /\ persona_to_segment' = << >>
    /\ variation_index' = 0
    /\ reviews' = << >>
    /\ rev_i' = 0
    /\ negative_sentiment_pct' = Zero
    /\ concerning_sentiment_pct' = Zero
    /\ segment_keys' = << >>
    /\ deb_i' = 0
    /\ debates' = << >>
    /\ debates_none' = TRUE
    /\ insights' = None
    /\ aggregate_call' = None
    /\ events' = << >>
    /\ at_yield' = FALSE
    /\ calls' = NoCalls
    /\ fails' = NoCalls
    /\ outcome' = "running"
    /\ UNCHANGED <<entry, num_personas, segment_configs, all_segments, personas_file,
                   retry>>

\* the first run starts in a working directory without persona files
CacheInit == BatchInit /\ personas_file = NoFiles

CacheNext == BatchNext \/ NextRun

CacheSpec == CacheInit /\ [][CacheNext]_vars

\* the graph has left generate_personas_node
PersonasNodeOver ==
    Batch /\ pc \in {"b_rev", "b_route", "b_deb", "b_agg", "b_end"}

\* C23: no cross-run state: the personas a run works on were synthesized in
\* that run, also in a second run of the same count in the same working
\* directory (each persona of the run comes from a synthesis call of the run
\* that returned).  Refuted on CacheSpec: the second run reads the first
\* run's personas from the file and makes no synthesis call.
C23_PersonasSynthesizedInRun ==
    (entry = "run_workflow" /\ PersonasNodeOver) =>
        Len(all_personas) = calls.synth - fails.synth


\* C24: in the insights delivered in `final_result`, sentiment_breakdown.total
\* is the number of reviews the aggregation was given and positive + neutral +
\* negative is total.  Refuted: the four counts are the oracle's output,
\* copied to the event as returned.
C24_BreakdownMatchesReviews ==
    \A i \in 1..Len(events) :
        events[i].type = "final_result" =>
            LET sb == events[i].sentiment_breakdown
            IN /\ sb.total = Len(aggregate_call.reviews_json)
               /\ sb.positive + sb.neutral + sb.negative = sb.total


\* C25: every review is attributed to the segment its persona was synthesized
\* from: the persona_segment given to b.ReviewPRD is the origin segment of the
\* persona, never the placeholder "unknown", on the streaming and on the batch
\* path.  Refuted: the batch path always passes "unknown", and the streaming
\* path looks the segment up by persona name, which two personas may share.
C25_ReviewAttributedToOrigin ==
    \A i \in 1..Len(reviews) :
        /\ reviews[i].reviewer_segment # "unknown"
        /\ reviews[i].reviewer_segment =
              all_personas[PersonaPosition(reviews[i])].origin

\* C25, streaming path alone: two personas of different segments were given
\* the same name by the oracle and the earlier one is reviewed under the
\* later one's segment
C25_StreamAttributedToOrigin ==
    Streaming => C25_ReviewAttributedToOrigin


\* ---------------------------------------------------------------------------
\* Variation directives over runs long enough to wrap around the pool.

MaxVariations == 11

VariationEntries == [segment_id : {"s1", "custom_x"}, count : 0..MaxVariations]

VariationLists ==
    {<<e>> : e \in VariationEntries}
        \cup {<<e, f>> : e \in VariationEntries, f \in VariationEntries}

\* a streaming run that has yielded its first two events and is about to build
\* segment_distribution (line 108) from a supplied distribution
VariationInit ==
    /\ entry = "stream"
    /\ pc = "s_dist"
    /\ personas_file = NoFiles
    /\ run = 1
    /\ retry = NoRetry
    /\ num_personas = MinPersonas
    /\ \E l \in VariationLists : segment_configs = [given |-> TRUE, list |-> l]
    /\ all_segments = Catalog
    /\ debates_none = FALSE
    /\ segment_distribution = << >>
    /\ seg_i = 0
    /\ rep_i = 0
    /\ all_personas = << >>
    /\ persona_to_segment = << >>
    /\ variation_index = 0
    /\ reviews = << >>
    /\ rev_i = 0
    /\ negative_sentiment_pct = Zero
    /\ concerning_sentiment_pct = Zero
    /\ segment_keys = << >>
    /\ deb_i = 0
    /\ debates = << >>
    /\ insights = None
    /\ aggregate_call = None
    /\ events = <<Ev("progress", "initialization", "", 0),
                  Ev("progress", "persona_generation", "", 0)>>
    /\ at_yield = TRUE
    /\ calls = NoCalls
    /\ fails = NoCalls
    /\ outcome = "running"

\* the persona generation stage, lines 108-216
VariationNext ==
    \/ BuildCustomDistribution
    \/ SegmentStart \/ SynthesizeOk \/ SynthesizeFail \/ PersonasComplete

VariationSpec == VariationInit /\ [][VariationNext]_vars

\* C26: the variation directive is a cyclic function of the variation index
\* alone: every persona of a streaming run was made with the directive at
\* position (index mod pool size) of the pool, so two personas whose indices
\* are equal modulo the pool size (in particular i and i + pool size) were made
\* with the same directive, whatever their segments and however many calls
\* came before, and two personas made with the same directive have indices
\* that are equal modulo the pool size.
C26_DirectiveCyclicInIndex ==
    Streaming =>
        \A j, k \in 1..Len(all_personas) :
            LET p == all_personas[j]
                q == all_personas[k]
                pool_size == Len(VARIATION_PROMPTS)
            IN /\ p.variation_prompt = VARIATION_PROMPTS[(p.idx % pool_size) + 1]
               /\ (p.idx % pool_size = q.idx % pool_size)
                      <=> (p.variation_prompt = q.variation_prompt)
               /\ q.idx = p.idx + pool_size => q.variation_prompt = p.variation_prompt

\* personas of two different segments, a whole pool apart, made with the same
\* directive
C26_Witness ==
    /\ Streaming
    /\ \E j, k \in 1..Len(all_personas) :
          /\ all_personas[k].idx = all_personas[j].idx + Len(VARIATION_PROMPTS)
          /\ all_personas[k].origin # all_personas[j].origin
          /\ all_personas[k].variation_prompt = all_personas[j].variation_prompt


\* the default even split is in force: no distribution was supplied and the
\* catalog has segments
DefaultSplit == ~ConfigsTruthy /\ all_segments # << >>

\* the number of personas the default split asks for: S * (N div S)
DefaultSplitTotal == Len(all_segments) * (num_personas \div Len(all_segments))

\* the persona stage of the run is over: `persona_generation_complete` was
\* yielded, or the graph has left generate_personas_node
PersonaStageOver ==
    \/ Streaming /\ HasPhase("persona_generation_complete")
    \/ entry = "run_workflow" /\ PersonasNodeOver

\* C27: under the default split every catalog segment gets N div S personas,
\* so a run makes exactly S * (N div S) synthesis calls, each leaving a persona
\* or a failure, and the N mod S remainder is never generated: this holds once
\* the persona stage is over and when the run has ended.  Refuted: a streaming
\* run ends at its first failed synthesis call, and a batch run that finds the
\* persona file of its count makes no synthesis call at all.
C27_DefaultSplitByIntegerDivision ==
    (DefaultSplit /\ entry \in {"stream", "run_workflow"}
                  /\ (pc = "done" \/ PersonaStageOver)) =>
        /\ calls.synth = DefaultSplitTotal
        /\ Len(all_personas) + fails.synth = DefaultSplitTotal

\* C27, the allocation alone: the distribution built by the default split has
\* one entry per catalog segment, each of N div S personas
C27_EverySegmentGetsQuotient ==
    (Streaming /\ DefaultSplit /\ segment_distribution # << >>) =>
        /\ Len(segment_distribution) = Len(all_segments)
        /\ \A i \in 1..Len(segment_distribution) :
              segment_distribution[i].count = num_personas \div Len(all_segments)


\* the batch policy and the streaming policy, applied to a list of reviews
BatchPolicyDebates(rs) == should_debate(BatchNegativePct(rs)) = "debate"
StreamPolicyDebates(rs) == StreamShouldDebate(StreamConcerningPct(rs))

\* C28: the batch policy is the stricter one: on every non-empty list of
\* reviews on which the batch policy (negative_pct > 30) enters debate, the
\* streaming policy (concerning_pct > 20) enters debate as well.  So a
\* streaming run whose reviews the batch policy would debate did enter the
\* debate stage, and a batch run routed to debate has reviews the streaming
\* policy would debate.
C28_BatchDebateImpliesStreamDebate ==
    reviews # << >> =>
        /\ BatchPolicyDebates(reviews) => StreamPolicyDebates(reviews)
        /\ (Streaming /\ StreamRouted /\ BatchPolicyDebates(reviews))
              => HasPhase("debates_starting")
        /\ (BatchRouted /\ BatchRoutedToDebate) => StreamPolicyDebates(reviews)

\* 6 negative and 4 positive reviews: the streaming run entered the debate
\* stage and the batch policy debates the same reviews
C28_Witness ==
    /\ Streaming /\ HasPhase("debates_starting")
    /\ Len(reviews) = 10
    /\ NegativeReviews = 6
    /\ ConcerningReviews = 6
    /\ BatchPolicyDebates(reviews)


\* the review loop has made one pass per persona up to position rev_i - 1
ReviewPasses == IF rev_i = 0 THEN 0 ELSE rev_i - 1

C30_AggregateReceivesWholeRun ==
    aggregate_call # None =>
        /\ aggregate_call.reviews_json = reviews
        /\ aggregate_call.debates_json = (IF debates_none THEN << >> ELSE debates)
        /\ aggregate_call.total_personas = Len(all_personas)

\* C30, streaming path alone
C30_StreamAggregateReceivesWholeRun ==
    Streaming => C30_AggregateReceivesWholeRun


\* persona generation has ended: `persona_generation_complete` was yielded, or
\* the graph has left generate_personas_node
PersonaGenerationEnded ==
    \/ Streaming /\ HasPhase("persona_generation_complete")
    \/ PersonasNodeOver

\* C31: the persona list is frozen once persona generation has ended: no step
\* of the review, sentiment, debate or aggregation stage changes the list or
\* an attribute of a persona in it, on the streaming and on the batch path.
C31_PersonasFrozenAfterGeneration ==
    [][PersonaGenerationEnded =>
          /\ all_personas' = all_personas
          /\ persona_to_segment' = persona_to_segment]_vars

\* a streaming run is over, with a failed review and a debate, and holds the
\* four personas it generated
C31_Witness ==
    /\ Streaming /\ pc = "done"
    /\ Len(all_personas) = 4
    /\ fails.review = 1
    /\ Len(debates) >= 1
    /\ insights # None


-----------------------------------------------------------------------------
(* The batch graph: langgraph_workflow.py, create_workflow *)

\* the positions of a run inside the compiled graph
GraphPositions == {"b_node1", "b_scale", "b_rev", "b_route", "b_deb", "b_agg"}

\* create_workflow, lines 362-382, as moves of the position: the entry point
\* generate_personas (b_node1, b_scale), its edge to phase1_reviews (b_rev),
\* the conditional edge (b_route) to phase2_debates (b_deb) or through
\* skip_debate, the two edges into aggregation (b_agg) and its edge to END
WorkflowEdges ==
    {<<"b_node1", "b_scale">>, <<"b_node1", "b_rev">>, <<"b_scale", "b_rev">>,
     <<"b_rev", "b_route">>,
     <<"b_route", "b_deb">>, <<"b_route", "b_agg">>,
     <<"b_deb", "b_agg">>,
     <<"b_agg", "b_end">>}

\* app.invoke returned: the graph reached END
GraphAtEnd == Batch /\ pc = "b_end"

\* C32: a batch run moves through the graph along its edges only, in the
\* order generate_personas, phase1_reviews, then phase2_debates when
\* should_debate says "debate" and skip_debate otherwise, then aggregation,
\* then END (a node that raises ends the run where it is); at END each node
\* has run once: one review pass over the personas, the four debate topics on
\* the debate branch and no debate call on the other, and one aggregation call
\* on either branch.
C32_GraphOrder ==
    /\ [][Batch /\ pc \in GraphPositions /\ pc' # pc =>
            \/ /\ <<pc, pc'>> \in WorkflowEdges
               /\ pc = "b_route" =>
                    /\ (pc' = "b_deb") = (should_debate(negative_sentiment_pct) = "debate")
                    /\ (pc' = "b_agg") = (should_debate(negative_sentiment_pct) = "skip_debate")
               /\ pc' = "b_agg" => debates_none' = (pc = "b_route")
            \/ pc' = "done" /\ outcome' = "raised"]_vars
    /\ [](GraphAtEnd =>
            /\ calls.review = Len(all_personas)
            /\ calls.debate = IF debates_none THEN 0 ELSE Len(DebateTopics)
            /\ calls.aggregate = 1)

\* run_workflow returned after the debate branch, with one aggregation call
C32_Witness ==
    /\ entry = "run_workflow" /\ pc = "done" /\ outcome = "returned"
    /\ ~debates_none
    /\ calls.debate = Len(DebateTopics)
    /\ calls.aggregate = 1


-----------------------------------------------------------------------------
(* The event stream of the streaming endpoint: api_server.py lines 93-483 *)

\* the runs of the streaming endpoint alone
StreamSpec == StreamInit /\ [][StreamNext]_vars

\* an event that announces a state of the progress state machine, as opposed
\* to one that carries a unit of generated data or reports on one segment:
\* the `persona_generation` progress events of lines 100 and 152/167, the
\* progress events of lines 219, 228 and 245, `review_complete`,
\* `debates_starting` or `debate_skipped`, `aggregating` and `complete`
IsTransitionEvent(e) ==
    \/ e.type = "progress" /\ e.phase = "persona_generation" /\ e.seg = ""
    \/ e.type = "progress" /\ e.phase \in {"workflow_creation", "phase1_reviews",
                                             "phase1_executing", "debates_starting",
                                             "debate_skipped", "aggregating"}
    \/ e.type \in {"review_complete", "complete"}

\* the rank of the state each event of the stream belongs to
EventRanks == [i \in 1..Len(events) |-> PhaseRank(events[i])]

\* the number of transition events of the state of rank k in a stream whose
\* events have the ranks rs
TransitionCount(rs, k) ==
    Cardinality({i \in DOMAIN rs : rs[i] = k /\ IsTransitionEvent(events[i])})

\* the stream has entered the state of rank k
Entered(rs, k) == \E i \in DOMAIN rs : rs[i] = k

\* the stream has left the state of rank k for a later state other than ERROR
Left(rs, k) == \E i \in DOMAIN rs : rs[i] \in (k + 1)..6

\* C33 as stated: every state a stream has entered, PERSONA_GENERATION (1)
\* to COMPLETE (6), has exactly one transition event in the stream.
C33_OneEventPerTransition ==
    Streaming =>
        LET rs == EventRanks
        IN  \A k \in 1..6 : Entered(rs, k) => TransitionCount(rs, k) = 1

\* C33: SENTIMENT_EVALUATED, DEBATE or DEBATE_SKIPPED, AGGREGATING and
\* COMPLETE each have exactly one transition event in a stream that entered
\* them; PERSONA_GENERATION has two (the segments are loaded, the distribution
\* is announced) and REVIEW has three (workflow_creation, phase1_reviews,
\* phase1_executing) once the stream has gone on to a later state.
C33_TransitionEventsPerState ==
    Streaming =>
        LET rs == EventRanks
            persona_generation == TransitionCount(rs, 1)
            review == TransitionCount(rs, 2)
        IN  /\ \A k \in 3..6 : Entered(rs, k) => TransitionCount(rs, k) = 1
            /\ Entered(rs, 1) => persona_generation \in 1..2
            /\ Entered(rs, 2) => review \in 1..3
            /\ Left(rs, 1) => persona_generation = 2
            /\ Left(rs, 2) => review = 3

\* a stream that went through the debate branch to `complete`
C33_Witness ==
    /\ Streaming /\ pc = "done" /\ LastType = "complete"
    /\ HasPhase("debates_starting")
    /\ TransitionCount(EventRanks, 1) = 2
    /\ TransitionCount(EventRanks, 2) = 3
    /\ \A k \in 3..6 : TransitionCount(EventRanks, k) = 1


\* the step makes a persona-synthesis call (generate_persona_variation)
SynthesisCall == calls'.synth = calls.synth + 1

\* the variation index the call of the step is given: variation_index at
\* api_server.py line 189, the loop variable i at persona_scaling.py line 97
SuppliedIndex == IF Streaming THEN variation_index ELSE rep_i

\* C34: successive synthesis calls of a run receive the indices 0, 1, 2, ...
\* across all segments: each call is given the number of calls made before it,
\* in the streaming persona loop and in the scale_personas call of
\* run_workflow.
C34_IndexIncreasesAcrossSegments ==
    [][SynthesisCall /\ entry \in {"stream", "run_workflow"} =>
          SuppliedIndex = calls.synth]_vars

\* the streaming persona loop alone gives each call the number of calls made
\* before it
C34_StreamIndexIncreases ==
    [][SynthesisCall /\ Streaming => SuppliedIndex = calls.synth]_vars

\* C35: the debate branch of a streaming run is exclusive: a stream with the
\* `aggregating` progress event holds exactly one of the `debates_starting`
\* and `debate_skipped` progress events, and a stream with `debate_skipped`
\* holds no `debate_running`, `debate_generated` or `debate_complete` event.
C35_DebateBranchExclusive ==
    Streaming =>
        /\ HasPhase("aggregating") =>
              CountPhase("debates_starting") + CountPhase("debate_skipped") = 1
        /\ HasPhase("debate_skipped") =>
              /\ ~HasPhase("debate_running")
              /\ ~HasType("debate_generated")
              /\ ~HasType("debate_complete")
              /\ calls.debate = 0

\* a stream of four reviews that skipped the debate stage and ended in
\* `complete`
C35_Witness ==
    /\ Streaming /\ pc = "done" /\ LastType = "complete"
    /\ HasPhase("debate_skipped")
    /\ HasPhase("aggregating")
    /\ Len(reviews) = 4

\* the positions of the events of type t, and of the progress events of phase p
TypePositions(t) == {i \in 1..Len(events) : events[i].type = t}
PhasePositions(p) ==
    {i \in 1..Len(events) : events[i].type = "progress" /\ events[i].phase = p}

\* C36: `debate_complete` is emitted at most once in a streaming run, never
\* without a DebateSession, and in a stream that reached `aggregating` exactly
\* when at least one DebateSession was produced; it carries their number and
\* comes after every `debate_generated` and before `aggregating`.  A stream
\* that entered the debate stage and produced no DebateSession (no segment
\* eligible, or every debate failed) reaches `aggregating` with neither
\* `debate_complete` nor `debate_skipped`.
C36_DebateCompleteIffDebates ==
    Streaming =>
        /\ CountType("debate_complete") <= 1
        /\ HasType("debate_complete") => debates # << >>
        /\ HasPhase("aggregating") =>
              (HasType("debate_complete") <=> debates # << >>)
        /\ (debates # << >>) <=> HasType("debate_generated")
        /\ \A c \in TypePositions("debate_complete") :
              /\ events[c].n = Len(debates)
              /\ \A g \in TypePositions("debate_generated") : g < c
              /\ \A a \in PhasePositions("aggregating") : a = c + 1
        /\ (HasPhase("debates_starting") /\ HasPhase("aggregating") /\ debates = << >>) =>
              /\ ~HasType("debate_complete")
              /\ ~HasPhase("debate_skipped")
              /\ \A s \in PhasePositions("debates_starting") :
                 \A a \in PhasePositions("aggregating") :
                 \A i \in (s + 1)..(a - 1) :
                     events[i].type = "progress" /\ events[i].phase = "debate_running"

\* the debate stage was entered, its one debate failed, and the stream went on
\* to `aggregating` and `complete`
C36_Witness ==
    /\ Streaming /\ pc = "done" /\ LastType = "complete"
    /\ HasPhase("debates_starting")
    /\ fails.debate >= 1
    /\ debates = << >>

\* the debate stage was entered with no eligible segment
C36_NoSegmentEligible ==
    /\ Streaming /\ HasPhase("debates_starting") /\ HasPhase("aggregating")
    /\ calls.debate = 0


\* the number of events of type t among the first i events of the stream
CountTypeUpTo(t, i) == Cardinality({j \in TypePositions(t) : j <= i})

\* C37: the counts carried by the events of a streaming run agree with the
\* stream: total_so_far of the k-th `review_generated` event is k and that of
\* the k-th `persona_generated` event is k; `review_complete.total_reviews`
\* and `final_result.reviews_count` are the number of `review_generated`
\* events; `final_result.debates_count` and
\* `debate_complete.debates_conducted` are the number of `debate_generated`
\* events.
C37_EventCountsAgree ==
    Streaming =>
        /\ \A i \in TypePositions("review_generated") :
              events[i].n = CountTypeUpTo("review_generated", i)
        /\ \A i \in TypePositions("persona_generated") :
              events[i].n = CountTypeUpTo("persona_generated", i)
        /\ \A i \in TypePositions("review_complete") :
              events[i].n = CountType("review_generated")
        /\ \A i \in TypePositions("final_result") :
              /\ events[i].n = CountType("review_generated")
              /\ events[i].debates_count = CountType("debate_generated")
        /\ \A i \in TypePositions("debate_complete") :
              events[i].n = CountType("debate_generated")

\* a stream with a failed review, a produced debate and a `final_result`
C37_Witness ==
    /\ Streaming /\ pc = "done" /\ LastType = "complete"
    /\ fails.review >= 1
    /\ HasType("debate_complete")
    /\ HasType("final_result")


\* the personas the synthesizer has returned so far in the run
SynthesizedCount == calls.synth - fails.synth

\* the persona count of the request is still in num_personas: always on the
\* streaming endpoint and under run_workflow, and in the /api/review handler
\* up to workflow.invoke (api_server.py line 537 hands the graph
\* len(all_personas) as personas_count)
RequestedCountKnown ==
    \/ entry \in {"stream", "run_workflow"}
    \/ entry = "api_review" /\ pc \in {"a_start", "a_scale"}

\* the review stage of the run is over
ReviewLoopOver ==
    \/ Streaming /\ HasType("review_complete")
    \/ Batch /\ pc \in {"b_route", "b_deb", "b_agg", "b_end"}

\* C38: on every entry point the synthesis invocations of a run never exceed
\* the requested persona count, no synthesized persona is discarded (each one
\* is in the persona list of the run), and once the review stage is over a
\* review invocation was made for every persona of the list.
C38_NoWastedSynthesis ==
    /\ RequestedCountKnown => calls.synth <= num_personas
    /\ SynthesizedCount <= Len(all_personas)
    /\ ReviewLoopOver => calls.review = Len(all_personas)

\* the same on the /api/review endpoint alone
C38_ApiReviewNoWastedSynthesis ==
    entry = "api_review" => C38_NoWastedSynthesis

\* the same under run_workflow alone: it holds there
C38_RunWorkflowNoWastedSynthesis ==
    entry = "run_workflow" => C38_NoWastedSynthesis


-----------------------------------------------------------------------------
(* generate_persona_with_retry: demo1_before_baml/messy_persona_gen.py,     *)
(* lines 301-473                                                            *)

\* largest max_retries a call is given
MaxRetries == 4
\* max_retries: int = 3
DefaultMaxRetries == 3

Retrying == entry = "generate_persona_with_retry"

\* response.usage of an API call that returned: two sample usages
Usages == {[input |-> 1, output |-> 2], [input |-> 3, output |-> 1]}
NoUsage == [input |-> 0, output |-> 0]

\* lines 426-427: total_tokens["input"] += ..., total_tokens["output"] += ...
AddTokens(t, u) == [input |-> t.input + u.input, output |-> t.output + u.output]

\* the names parse_and_validate_response gives its two fallback personas
\* (lines 232 and 289), the name of the persona returned when every attempt
\* failed (line 464), and the name of a persona parsed from the response
ParseFallbacks == {"Unknown User", "Error User"}
FailedUser == "Failed User"
ParsedNames == {"Ada"}

\* the variables generate_persona_with_retry does not touch
pipelineVars == <<num_personas, segment_configs, all_segments, personas_file, run,
                  personaVars, reviewVars, debateVars, insights, aggregate_call,
                  events, at_yield, calls, fails>>

\* one more attempt on record, with the tokens of its response, if any
Attempted(kind, usage, error) ==
    [retry EXCEPT !.total_tokens = AddTokens(@, usage),
                  !.last_error = error,
                  !.attempts = Append(@, [outcome |-> kind, usage |-> usage])]

\* line 412: the loop has an attempt left
InLoop == Retrying /\ pc = "r_try" /\ retry.attempt < retry.max_retries

\* mutant: no try/except around the API call
ApiCallRaisesToCaller ==
    /\ InLoop
    /\ retry' = Attempted("api_error", NoUsage, "api")
    /\ outcome' = "raised"
    /\ pc' = "done"
    /\ UNCHANGED <<entry, pipelineVars>>

\* lines 416-423 and 445-448: client.messages.create raises
ApiCallRaises ==
    /\ InLoop
    /\ retry' = Attempted("api_error", NoUsage, "api")
    /\ pc' = "r_backoff"
    /\ UNCHANGED <<entry, pipelineVars, outcome>>

\* lines 426-434 and 445-448: the call returned and its tokens are counted;
\* reading the response or parsing it raises
ResponseUnusable ==
    /\ InLoop
    /\ \E u \in Usages : retry' = Attempted("unusable", u, "exception")
    /\ pc' = "r_backoff"
    /\ UNCHANGED <<entry, pipelineVars, outcome>>

\* lines 426-443: the call returned, parse_and_validate_response gave one of
\* its fallback personas
ParsedFallback ==
    /\ InLoop
    /\ \E u \in Usages, f \in ParseFallbacks :
          retry' = Attempted(f, u, "Validation failed")
    /\ pc' = "r_backoff"
    /\ UNCHANGED <<entry, pipelineVars, outcome>>

\* lines 426-439: the call returned and a persona was parsed: return result,
\* total_tokens
ParsedPersona ==
    /\ InLoop
    /\ \E u \in Usages, name \in ParsedNames :
          retry' = [retry EXCEPT !.total_tokens = AddTokens(@, u),
                                 !.attempts = Append(@, [outcome |-> "persona",
                                                        usage |-> u]),
                                 !.result = name]
    /\ outcome' = "returned"
    /\ pc' = "done"
    /\ UNCHANGED <<entry, pipelineVars>>

\* line 453: wait_time = (2 ** attempt) * 1.0
wait_time(attempt) == 2 ^ attempt

\* lines 452-456: the failed attempt is not the last one, time.sleep(wait_time)
Backoff ==
    /\ Retrying /\ pc = "r_backoff"
    /\ retry.attempt < retry.max_retries - 1
    /\ retry' = [retry EXCEPT !.slept = Append(@, wait_time(retry.attempt)),
                              !.attempt = @ + 1]
    /\ pc' = "r_try"
    /\ UNCHANGED <<entry, pipelineVars, outcome>>

\* mutant: the function sleeps after its last attempt as well
LastAttemptFailedSleeps ==
    /\ Retrying /\ pc = "r_backoff"
    /\ ~(retry.attempt < retry.max_retries - 1)
    /\ retry' = [retry EXCEPT !.slept = Append(@, wait_time(retry.attempt)),
                              !.attempt = @ + 1]
    /\ pc' = "r_try"
    /\ UNCHANGED <<entry, pipelineVars, outcome>>

\* line 452 with attempt = max_retries - 1: the last attempt failed, no sleep
LastAttemptFailed ==
    /\ Retrying /\ pc = "r_backoff"
    /\ ~(retry.attempt < retry.max_retries - 1)
    /\ retry' = [retry EXCEPT !.attempt = @ + 1]
    /\ pc' = "r_try"
    /\ UNCHANGED <<entry, pipelineVars, outcome>>

\* lines 458-473: the loop is over without a return, the Failed User persona
\* is returned with total_tokens
Exhausted ==
    /\ Retrying /\ pc = "r_try"
    /\ ~(retry.attempt < retry.max_retries)
    /\ retry' = [retry EXCEPT !.result = FailedUser]
    /\ outcome' = "returned"
    /\ pc' = "done"
    /\ UNCHANGED <<entry, pipelineVars>>

\* a call of generate_persona_with_retry with any max_retries
RetryInit ==
    /\ entry = "generate_persona_with_retry"
    /\ pc = "r_try"
    /\ num_personas = MinPersonas
    /\ segment_configs = [given |-> FALSE, list |-> << >>]
    /\ all_segments = Catalog
    /\ personas_file = NoFiles
    /\ run = 1
    /\ debates_none = FALSE
    /\ FreshRun
    /\ \E m \in 0..MaxRetries : retry = [NoRetry EXCEPT !.max_retries = m]

RetryNext ==
    \/ ApiCallRaises \/ ResponseUnusable \/ ParsedFallback \/ ParsedPersona
    \/ Backoff \/ LastAttemptFailed \/ Exhausted

RetrySpec == RetryInit /\ [][RetryNext]_vars

\* the attempt did not end in a parsed persona
FailedAttempt(a) == a.outcome # "persona"

\* the tokens of the attempts whose API call returned
RECURSIVE ReturnedTokens(_)
ReturnedTokens(as) ==
    IF as = << >> THEN NoUsage
    ELSE AddTokens(ReturnedTokens(SubSeq(as, 1, Len(as) - 1)),
                   IF as[Len(as)].outcome = "api_error" THEN NoUsage
                   ELSE as[Len(as)].usage)

\* the function has returned or raised
RetryOver == Retrying /\ pc = "done"

\* C39: generate_persona_with_retry makes at most max_retries API calls; every
\* attempt before the last one made has failed, and a call that returns a
\* parsed persona returns the one of its last attempt; it never raises; it
\* returns the Failed User persona exactly when max_retries attempts were made
\* and all failed; total_tokens is the sum of the usages of the attempts whose
\* API call returned.
C39_RetryContract ==
    Retrying =>
        /\ Len(retry.attempts) <= retry.max_retries
        /\ \A i \in 1..(Len(retry.attempts) - 1) : FailedAttempt(retry.attempts[i])
        /\ retry.total_tokens = ReturnedTokens(retry.attempts)
        /\ RetryOver =>
              /\ outcome = "returned"
              /\ retry.result # "None"
              /\ retry.result \notin ParseFallbacks
              /\ (retry.result = FailedUser) <=>
                    /\ Len(retry.attempts) = retry.max_retries
                    /\ \A i \in 1..Len(retry.attempts) : FailedAttempt(retry.attempts[i])
              /\ (retry.result # FailedUser) =>
                    /\ retry.attempts # << >>
                    /\ ~FailedAttempt(retry.attempts[Len(retry.attempts)])
                    /\ retry.result \in ParsedNames

\* three attempts: the API raised, the response did not parse, a persona was
\* parsed and returned with the tokens of the last two attempts
C39_Witness ==
    /\ RetryOver
    /\ retry.max_retries = DefaultMaxRetries
    /\ Len(retry.attempts) = 3
    /\ retry.attempts[1].outcome = "api_error"
    /\ retry.attempts[2].outcome \in ParseFallbacks
    /\ retry.result \in ParsedNames
    /\ retry.total_tokens = AddTokens(retry.attempts[2].usage, retry.attempts[3].usage)

\* every attempt of a call with the default max_retries failed
C39_AllAttemptsFailed ==
    /\ RetryOver
    /\ retry.max_retries = DefaultMaxRetries
    /\ retry.result = FailedUser
    /\ retry.total_tokens # NoUsage

=============================================================================
